---- MODULE Spec2Model ----
(***************************************************************************)
(* The command-buffer / render-pass recorder of the gpu crate              *)
(* (gpu/src/command_buffer.rs, gpu/src/lib.rs) as a state machine.         *)
(*                                                                         *)
(* A client owns up to NumBuffers CommandBuffer slots.  Every action is    *)
(* one call of the public API (or one destructor run) that safe Rust lets  *)
(* the client make: the guards that are not `if`s of the code are the      *)
(* ownership rules of the signatures (`&mut self` of begin_render_pass     *)
(* and pipeline_barrier, `self` by value of submit, the `&'c mut` borrow   *)
(* held by RenderPassCommand).  Values are destroyed by running their      *)
(* destructor; std::mem::forget is not an operation of this model.         *)
(*                                                                         *)
(* calls[i] is the sequence of native (driver) calls made on the native    *)
(* command buffer of slot i, in program order.                             *)
(***************************************************************************)
EXTENDS Integers, Sequences, FiniteSets, TLC

\* ------------------------------------------------------------------ bounds
NumBuffers == 2        \* CommandBuffer slots the client uses
MaxOps == 5            \* API calls the client makes on CommandBuffers (new, recording calls, submit / drop)
MaxSems == 1           \* longest wait/signal semaphore slice and wait_stages slice
MaxBind == 1           \* longest buffers / offsets slice of bind_vertex_buffer
NumFrameSlots == 2     \* in-flight frame slots (entries of gpu.thread_local_states)
NumThreads == 2        \* threads of the client that create CommandBuffers
MaxSize == 3           \* largest allocation.size of the buffer written by write_data, in bytes
MaxElems == 2          \* longest data slice passed to write_data
MaxWrites == 2         \* calls of write_data the client makes
NumAllocators == 2     \* memory allocator and descriptor-set allocator instances
DomainCapacity == 3    \* bytes of each memory domain of a memory allocator
MaxResOps == 4         \* creations and destructions of resources the client performs
SetsPerPool == 2       \* descriptor sets a descriptor pool page is sized for
MaxArenaOps == 5       \* add, clone, drop and get calls the client makes on the arena
MaxLabels == 2         \* debug regions the client begins
MaxDescriptors == 2    \* longest uniform_buffers, textures and texture_inputs list of a material

CBs == 1..NumBuffers
FrameSlots == 0..(NumFrameSlots - 1)
\* slot i is a local variable of thread ThreadOf(i)
ThreadOf(i) == ((i - 1) % NumThreads) + 1

\* ------------------------------------------------------------ value domains
QueueType == {"Graphics", "AsyncCompute", "Transfer"}

VkErrors == {"ERROR_OUT_OF_HOST_MEMORY", "ERROR_DEVICE_LOST"}
VkResults == {"SUCCESS"} \cup VkErrors

\* Option<T> as a sequence of length at most one
None == << >>
Some(x) == << x >>
IsSome(o) == Len(o) = 1
Unwrap(o) == o[1]

\* VkResult<T> as seen by the caller
Ok == [ok |-> TRUE, err |-> "SUCCESS"]
Err(code) == [ok |-> FALSE, err |-> code]

VARIABLES
    cb,             \* slot -> the CommandBuffer value held in it
    rp,             \* slot -> Option<RenderPassCommand> borrowing that CommandBuffer
    calls,          \* slot -> native calls made on its native command buffer
    new_ret,        \* what the last call of CommandBuffer::new returned, and the driver call that failed in it
    submit_ret,     \* slot -> what submit returned, and the driver call that failed in it
    current_frame,  \* gpu.swapchain.current_frame
    panicked,       \* "none", or the message of the panic that stopped the program
    ops,            \* API calls the client has made so far
    \* GPU resources and their allocators (gpu/src/types.rs)
    allocators,     \* memory allocator instance -> memory domain -> its free list
    resources,      \* slot -> the GpuBuffer / GpuImage value held in it
    ds_allocators,  \* descriptor-set allocator instance -> its pool pages
    descriptor_sets,\* slot -> the GpuDescriptorSet value held in it
    driver,         \* resource or descriptor-set slot -> allocator and driver calls made for it, in order
    \* the resource handle arena
    slots,          \* the arena's slot table
    handles,        \* handle variable of the client -> the ResourceHandle held in it
    \* GpuBuffer::write_data
    host_buffer,    \* the GpuBuffer written to: its allocation and the bytes behind it
    last_write,     \* the last call of write_data: its arguments, the bytes before it, its outcome
    \* debug labels (gpu/src/command_buffer.rs)
    debug_utilities,\* whether gpu.state.debug_utilities is Some
    labels,         \* label variable of the client -> the ScopedDebugLabel held in it
    \* materials (engine/src/material)
    material_ret,   \* the last call of Material::new: the descriptor list it built, what it returned
    instance_ret    \* the last call of MaterialInstance::create_instance: what it built and returned

recorderVars == << cb, rp, calls, new_ret, submit_ret, current_frame >>
resourceVars == << allocators, resources, ds_allocators, descriptor_sets, driver >>
arenaVars == << slots, handles >>
writeVars == << host_buffer, last_write >>
labelVars == << debug_utilities, labels >>
materialVars == << material_ret, instance_ret >>
vars == << recorderVars, panicked, ops, resourceVars, arenaVars, writeVars, labelVars, materialVars >>

\* ------------------------------------------------------- lib.rs: QueueType
\* QueueType::get_vk_command_pool: the pool of the requested queue in the
\* thread-local state of the current frame slot
get_vk_command_pool_OneState(q, frame) ==
    [frame |-> 0,
     pool  |-> CASE q = "Graphics"     -> "graphics_command_pool"
                 [] q = "AsyncCompute" -> "compute_command_pool"
                 [] q = "Transfer"     -> "transfer_command_pool"]
get_vk_command_pool(q, frame) ==
    [frame |-> frame,
     pool  |-> CASE q = "Graphics"     -> "graphics_command_pool"
                 [] q = "AsyncCompute" -> "compute_command_pool"
                 [] q = "Transfer"     -> "transfer_command_pool"]

\* QueueType::get_vk_queue
get_vk_queue(q) ==
    CASE q = "Graphics"     -> "graphics_queue"
      [] q = "AsyncCompute" -> "async_compute_queue"
      [] q = "Transfer"     -> "transfer_queue"

\* ------------------------------------------- load / store ops and their ToVk
DontCare == [kind |-> "DontCare", value |-> None]
Load == [kind |-> "Load", value |-> None]
Clear(v) == [kind |-> "Clear", value |-> Some(v)]

\* impl ToVk for ColorLoadOp / DepthLoadOp / StencilLoadOp
LoadOpToVk(op) ==
    CASE op.kind = "DontCare" -> "DONT_CARE"
      [] op.kind = "Load"     -> "LOAD"
      [] op.kind = "Clear"    -> "CLEAR"

\* impl ToVk for AttachmentStoreOp
StoreOpToVk(op) ==
    CASE op = "DontCare" -> "DONT_CARE"
      [] op = "Store"    -> "STORE"

\* ash::vk::ClearValue::default()
DefaultClearValue == << 0, 0, 0, 0 >>

\* the RenderingAttachmentInfoKHR built for a color attachment
ColorAttachmentInfo(attch) ==
    [load_op     |-> LoadOpToVk(attch.load_op),
     store_op    |-> StoreOpToVk(attch.store_op),
     clear_value |-> IF attch.load_op.kind = "Clear"
                     THEN Unwrap(attch.load_op.value)
                     ELSE DefaultClearValue]

\* the RenderingAttachmentInfoKHR built for the depth attachment
DepthAttachmentInfo(attch) ==
    [load_op     |-> LoadOpToVk(attch.load_op),
     store_op    |-> StoreOpToVk(attch.store_op),
     clear_value |-> IF attch.load_op.kind = "Clear"
                     THEN [depth |-> Unwrap(attch.load_op.value), stencil |-> 255]
                     ELSE [depth |-> 0, stencil |-> 0]]

\* the RenderingAttachmentInfoKHR built for the stencil attachment
StencilAttachmentInfo(attch) ==
    [load_op     |-> LoadOpToVk(attch.load_op),
     store_op    |-> StoreOpToVk(attch.store_op),
     clear_value |-> IF attch.load_op.kind = "Clear"
                     THEN [depth |-> 0, stencil |-> Unwrap(attch.load_op.value)]
                     ELSE [depth |-> 0, stencil |-> 0]]

MapSeq(F(_), s) == [k \in 1..Len(s) |-> F(s[k])]
MapOption(F(_), o) == IF IsSome(o) THEN Some(F(Unwrap(o))) ELSE None

\* BeginRenderPassInfo values the client passes
Rect2D(x, y, w, h) == [offset |-> [x |-> x, y |-> y], extent |-> [width |-> w, height |-> h]]
Attachment(load_op, store_op) == [load_op |-> load_op, store_op |-> store_op]

ClearPassInfo ==
    [color_attachments  |-> << Attachment(Clear(<< 0, 0, 0, 1 >>), "Store") >>,
     depth_attachment   |-> None,
     stencil_attachment |-> None,
     render_area        |-> Rect2D(0, 0, 2, 1)]

LoadPassInfo ==
    [color_attachments  |-> << Attachment(Load, "Store"), Attachment(DontCare, "DontCare") >>,
     depth_attachment   |-> Some(Attachment(Clear(1), "Store")),
     stencil_attachment |-> Some(Attachment(Clear(7), "DontCare")),
     render_area        |-> Rect2D(1, 1, 1, 2)]

BeginInfos == {ClearPassInfo, LoadPassInfo}

\* CommandBufferSubmitInfo values the client passes: the slices by their lengths
SubmitInfos ==
    [wait_semaphores   : 0..MaxSems,
     wait_stages       : 0..MaxSems,
     signal_semaphores : {1},
     fence             : {TRUE}]

\* ------------------------------------------------------------ native calls
\* calls that record a command into the native command buffer
CmdOps == {"BeginRendering", "EndRendering", "PipelineBarrier", "BindDescriptorSets",
           "BindPipeline", "DrawIndexed", "Draw", "SetViewport", "SetScissor",
           "BindIndexBuffer", "BindVertexBuffers", "PushConstants",
           "BeginDebugUtilsLabel", "EndDebugUtilsLabel", "InsertDebugUtilsLabel"}

Cmd(op) == [op |-> op]
IsCmd(c) == c.op \in CmdOps
Recorded(i) == SelectSeq(calls[i], IsCmd)

\* ------------------------------------------------------------------- state
NoBuffer ==
    [phase                 |-> "none",
     has_recorded_anything |-> FALSE,
     has_been_submitted    |-> FALSE,
     target_queue          |-> "null",
     command_pool          |-> [frame |-> 0, pool |-> "null"],
     requested             |-> "null",
     submit_called         |-> FALSE,
     drop_panicked         |-> FALSE]

NotCalled == [failed_call |-> "none", code |-> "SUCCESS", ret |-> [ok |-> FALSE, err |-> "not called"]]
Returned(failed_call, code, ret) == [failed_call |-> failed_call, code |-> code, ret |-> ret]
Panic == [ok |-> FALSE, err |-> "panic"]

Running == panicked = "none"

\* the client's program is MaxOps calls long
Room == ops < MaxOps
Live(i) == cb[i].phase = "live"
\* the CommandBuffer of slot i is usable by value or by `&mut`: no RenderPassCommand borrows it
Unborrowed(i) == Live(i) /\ rp[i] = None
InRenderPass(i) == Live(i) /\ IsSome(rp[i])

\* The receiver of the methods of `impl RenderPassCommand` is a RenderPassCommand:
\* they are callable on slot i only while one exists for its CommandBuffer.
RenderPassCommandMethod(i) == InRenderPass(i)

\* The receiver of pipeline_barrier is `&mut CommandBuffer`: a RenderPassCommand
\* holds the only `&mut` and derefs to a shared reference only.
PipelineBarrierReceiver_Shared(i) == Live(i)
PipelineBarrierReceiver(i) == Unborrowed(i)

\* no resource, no arena object and no write yet
ResourcesInit ==
    /\ allocators = << >>
    /\ resources = << >>
    /\ ds_allocators = << >>
    /\ descriptor_sets = << >>
    /\ driver = << >>
ArenaInit ==
    /\ slots = << >>
    /\ handles = << >>
WriteInit ==
    /\ host_buffer = << >>
    /\ last_write = << >>
LabelsInit ==
    /\ debug_utilities = FALSE
    /\ labels = << >>
MaterialInit ==
    /\ material_ret = << >>
    /\ instance_ret = << >>

Init ==
    /\ cb = [i \in CBs |-> NoBuffer]
    /\ rp = [i \in CBs |-> None]
    /\ calls = [i \in CBs |-> << >>]
    /\ new_ret = NotCalled
    /\ submit_ret = [i \in CBs |-> NotCalled]
    /\ current_frame = 0
    /\ panicked = "none"
    /\ ops = 0
    /\ ResourcesInit /\ ArenaInit /\ WriteInit /\ LabelsInit /\ MaterialInit

\* ------------------------------------------------------- CommandBuffer::new
New(i, q) ==
    /\ Running
    /\ Room
    /\ ops' = ops + 1
    /\ UNCHANGED << resourceVars, arenaVars, writeVars, labelVars, materialVars >>
    /\ cb[i].phase = "none"
    \* the client's CommandBuffer variables are interchangeable: they are taken in order
    /\ \A j \in 1..(i - 1) : cb[j].phase # "none"
    /\ \E r_alloc \in VkResults :
       IF r_alloc # "SUCCESS" THEN
            \* allocate_command_buffers(..)? returns the error: no CommandBuffer exists
            /\ new_ret' = Returned("allocate_command_buffers", r_alloc, Err(r_alloc))
            /\ UNCHANGED << cb, calls >>
       ELSE \E r_begin \in VkResults :
       IF r_begin # "SUCCESS" THEN
            \* begin_command_buffer(..)? returns the error: no CommandBuffer exists
            /\ new_ret' = Returned("begin_command_buffer", r_begin, Err(r_begin))
            /\ UNCHANGED << cb, calls >>
       ELSE
            /\ cb' = [cb EXCEPT ![i] =
                    [phase                 |-> "live",
                     has_recorded_anything |-> FALSE,
                     has_been_submitted    |-> FALSE,
                     target_queue          |-> get_vk_queue(q),
                     command_pool          |-> get_vk_command_pool(q, current_frame),
                     requested             |-> q,
                     submit_called         |-> FALSE,
                     drop_panicked         |-> FALSE]]
            /\ calls' = [calls EXCEPT ![i] = << [op |-> "BeginCommandBuffer", result |-> "SUCCESS"] >>]
            /\ new_ret' = Returned("none", "SUCCESS", Ok)
    /\ UNCHANGED << rp, submit_ret, current_frame, panicked >>

\* ------------------------------------------ impl Drop for CommandBuffer
\* whether drop(&mut self) panics
DropPanics_OnlyIfRecorded(c) == ~c.has_been_submitted /\ c.has_recorded_anything
DropPanics(c) == ~c.has_been_submitted

DropMessage == "CommandBuffer::submit hasn't been called!"

\* the client lets a CommandBuffer go out of scope
DropCommandBuffer(i) ==
    /\ Running
    /\ Room
    /\ ops' = ops + 1
    /\ UNCHANGED << resourceVars, arenaVars, writeVars, labelVars, materialVars >>
    /\ Unborrowed(i)
    /\ cb' = [cb EXCEPT ![i].phase = "destroyed",
                        ![i].drop_panicked = DropPanics(cb[i])]
    /\ panicked' = IF DropPanics(cb[i]) THEN DropMessage ELSE panicked
    /\ UNCHANGED << rp, calls, new_ret, submit_ret, current_frame >>

Record(i, cmds) == [calls EXCEPT ![i] = calls[i] \o cmds]

\* -------------------------------------------------- RenderPassCommand::new
\* the RenderingInfoKHR handed to cmd_begin_rendering
RenderingInfo(info) ==
    [op                |-> "BeginRendering",
     render_area       |-> info.render_area,
     color_attachments |-> MapSeq(ColorAttachmentInfo, info.color_attachments),
     depth_attachment  |-> MapOption(DepthAttachmentInfo, info.depth_attachment),
     stencil_attachment |-> MapOption(StencilAttachmentInfo, info.stencil_attachment)]

\* what RenderPassCommand::new records: cmd_begin_rendering(.., &create_info)
RenderPassNew_Nothing(info) == << >>
RenderPassNew(info) == << RenderingInfo(info) >>

\* CommandBuffer::begin_render_pass(&mut self, info) -> RenderPassCommand::new
BeginRenderPass(i, info) ==
    /\ Running
    /\ Unborrowed(i)
    /\ Room
    /\ ops' = ops + 1
    /\ UNCHANGED << resourceVars, arenaVars, writeVars, labelVars, materialVars >>
    /\ calls' = Record(i, RenderPassNew(info))
    /\ rp' = [rp EXCEPT ![i] = Some([has_draw_command |-> FALSE,
                                     viewport_area    |-> None,
                                     scissor_area     |-> None,
                                     render_area      |-> info.render_area])]
    /\ UNCHANGED << cb, new_ret, submit_ret, current_frame, panicked >>

\* impl Drop for RenderPassCommand: what drop(&mut self) records
RenderPassDrop_Nothing == << >>
RenderPassDrop == << Cmd("EndRendering") >>

DropRenderPassCommand(i) ==
    /\ Running
    /\ InRenderPass(i)
    /\ Room
    /\ ops' = ops + 1
    /\ UNCHANGED << resourceVars, arenaVars, writeVars, labelVars, materialVars >>
    /\ calls' = Record(i, RenderPassDrop)
    /\ rp' = [rp EXCEPT ![i] = None]
    /\ UNCHANGED << cb, new_ret, submit_ret, current_frame, panicked >>

\* ---------------------------------------------- CommandBuffer::pipeline_barrier
\* takes &mut self: not callable through the shared reference a RenderPassCommand derefs to
PipelineBarrier(i) ==
    /\ Running
    /\ PipelineBarrierReceiver(i)
    /\ Room
    /\ ops' = ops + 1
    /\ UNCHANGED << resourceVars, arenaVars, writeVars, labelVars, materialVars >>
    /\ cb' = [cb EXCEPT ![i].has_recorded_anything = TRUE]
    /\ calls' = Record(i, << Cmd("PipelineBarrier") >>)
    /\ UNCHANGED << rp, new_ret, submit_ret, current_frame, panicked >>

\* ------------------------------------------ CommandBuffer::bind_descriptor_sets
\* takes &self: callable on the CommandBuffer itself and, through
\* Deref / AsRef, on a RenderPassCommand that borrows it
BindDescriptorSets(i) ==
    /\ Running
    /\ Live(i)
    /\ Room
    /\ ops' = ops + 1
    /\ UNCHANGED << resourceVars, arenaVars, writeVars, labelVars, materialVars >>
    /\ calls' = Record(i, << Cmd("BindDescriptorSets") >>)
    /\ UNCHANGED << cb, rp, new_ret, submit_ret, current_frame, panicked >>

\* ------------------------------------------------ RenderPassCommand methods
BindPipeline_MarksRecorded(i) ==
    /\ Running
    /\ RenderPassCommandMethod(i)
    /\ Room
    /\ ops' = ops + 1
    /\ UNCHANGED << resourceVars, arenaVars, writeVars, labelVars, materialVars >>
    /\ calls' = Record(i, << Cmd("BindPipeline") >>)
    /\ cb' = [cb EXCEPT ![i].has_recorded_anything = TRUE]
    /\ UNCHANGED << rp, new_ret, submit_ret, current_frame, panicked >>
BindPipeline(i) ==
    /\ Running
    /\ RenderPassCommandMethod(i)
    /\ Room
    /\ ops' = ops + 1
    /\ UNCHANGED << resourceVars, arenaVars, writeVars, labelVars, materialVars >>
    /\ calls' = Record(i, << Cmd("BindPipeline") >>)
    /\ UNCHANGED << cb, rp, new_ret, submit_ret, current_frame, panicked >>

\* RenderPassCommand::prepare_draw: the viewport and the scissor it sets
PrepareDrawViewport(pass) ==
    IF IsSome(pass.viewport_area) THEN Unwrap(pass.viewport_area)
    ELSE [x |-> 0, y |-> 0,
          width  |-> pass.render_area.extent.width,
          height |-> pass.render_area.extent.height,
          min_depth |-> 0, max_depth |-> 1]

PrepareDrawScissor(pass) ==
    IF IsSome(pass.scissor_area) THEN Unwrap(pass.scissor_area)
    ELSE [offset |-> [x |-> 0, y |-> 0], extent |-> pass.render_area.extent]

prepare_draw(pass) ==
    << [op |-> "SetViewport", viewport |-> PrepareDrawViewport(pass)],
       [op |-> "SetScissor", scissor |-> PrepareDrawScissor(pass)] >>

DrawIndexed(i) ==
    /\ Running
    /\ RenderPassCommandMethod(i)
    /\ Room
    /\ ops' = ops + 1
    /\ UNCHANGED << resourceVars, arenaVars, writeVars, labelVars, materialVars >>
    /\ rp' = [rp EXCEPT ![i] = Some([Unwrap(rp[i]) EXCEPT !.has_draw_command = TRUE])]
    /\ cb' = [cb EXCEPT ![i].has_recorded_anything = TRUE]
    /\ calls' = Record(i, prepare_draw(Unwrap(rp[i])) \o << Cmd("DrawIndexed") >>)
    /\ UNCHANGED << new_ret, submit_ret, current_frame, panicked >>

Draw(i) ==
    /\ Running
    /\ RenderPassCommandMethod(i)
    /\ Room
    /\ ops' = ops + 1
    /\ UNCHANGED << resourceVars, arenaVars, writeVars, labelVars, materialVars >>
    /\ rp' = [rp EXCEPT ![i] = Some([Unwrap(rp[i]) EXCEPT !.has_draw_command = TRUE])]
    /\ cb' = [cb EXCEPT ![i].has_recorded_anything = TRUE]
    /\ calls' = Record(i, prepare_draw(Unwrap(rp[i])) \o << Cmd("Draw") >>)
    /\ UNCHANGED << new_ret, submit_ret, current_frame, panicked >>

BindIndexBuffer(i) ==
    /\ Running
    /\ RenderPassCommandMethod(i)
    /\ Room
    /\ ops' = ops + 1
    /\ UNCHANGED << resourceVars, arenaVars, writeVars, labelVars, materialVars >>
    /\ calls' = Record(i, << Cmd("BindIndexBuffer") >>)
    /\ UNCHANGED << cb, rp, new_ret, submit_ret, current_frame, panicked >>

\* assert!(buffers.len() == offsets.len()) stops the program; nothing is recorded then
BindVertexBuffer(i, n_buffers, n_offsets) ==
    /\ Running
    /\ RenderPassCommandMethod(i)
    /\ Room
    /\ ops' = ops + 1
    /\ UNCHANGED << resourceVars, arenaVars, writeVars, labelVars, materialVars >>
    /\ IF n_buffers # n_offsets THEN
            /\ panicked' = "assertion failed: buffers.len() == offsets.len()"
            /\ UNCHANGED calls
       ELSE
            /\ calls' = Record(i, << Cmd("BindVertexBuffers") >>)
            /\ UNCHANGED panicked
    /\ UNCHANGED << cb, rp, new_ret, submit_ret, current_frame >>

PushConstant(i) ==
    /\ Running
    /\ RenderPassCommandMethod(i)
    /\ Room
    /\ ops' = ops + 1
    /\ UNCHANGED << resourceVars, arenaVars, writeVars, labelVars, materialVars >>
    /\ calls' = Record(i, << Cmd("PushConstants") >>)
    /\ UNCHANGED << cb, rp, new_ret, submit_ret, current_frame, panicked >>

\* ---------------------------------------------------- CommandBuffer::submit
\* the SubmitInfo handed to queue_submit, with the fence and the driver's answer
QueueSubmit(i, c, submit_info, result) ==
    [op                     |-> "QueueSubmit",
     queue                  |-> c.target_queue,
     command_buffers        |-> << i >>,
     wait_semaphore_count   |-> submit_info.wait_semaphores,
     wait_dst_stage_masks   |-> submit_info.wait_stages,
     signal_semaphore_count |-> submit_info.signal_semaphores,
     fence                  |-> submit_info.fence,
     result                 |-> result]

EndCommandBuffer(result) == [op |-> "EndCommandBuffer", result |-> result]

\* the early return of submit: `if !self.has_recorded_anything { return Ok(()); }`
SubmitIsNoOp_Never(c) == FALSE
SubmitIsNoOp(c) == ~c.has_recorded_anything

\* submit(mut self, ..) takes the CommandBuffer by value: it needs an unborrowed
\* buffer, and the buffer is destroyed (its Drop runs) when submit returns or unwinds
Submit(i, submit_info) ==
    /\ Running
    /\ Room
    /\ ops' = ops + 1
    /\ UNCHANGED << resourceVars, arenaVars, writeVars, labelVars, materialVars >>
    /\ Unborrowed(i)
    /\ LET self == [cb[i] EXCEPT !.has_been_submitted = TRUE, !.submit_called = TRUE]
           dropped == [self EXCEPT !.phase = "destroyed", !.drop_panicked = DropPanics(self)]
       IN /\ cb' = [cb EXCEPT ![i] = dropped]
          /\ IF SubmitIsNoOp(self) THEN
                  /\ submit_ret' = [submit_ret EXCEPT ![i] = Returned("none", "SUCCESS", Ok)]
                  /\ panicked' = IF DropPanics(self) THEN DropMessage ELSE panicked
                  /\ UNCHANGED calls
             ELSE \E r_end \in VkResults :
             IF r_end # "SUCCESS" THEN
                  \* .expect("Failed to end inner command buffer")
                  /\ calls' = Record(i, << EndCommandBuffer(r_end) >>)
                  /\ submit_ret' = [submit_ret EXCEPT ![i] =
                          Returned("end_command_buffer", r_end, Panic)]
                  /\ panicked' = "Failed to end inner command buffer"
             ELSE \E r_submit \in VkResults :
                  /\ calls' = Record(i, << EndCommandBuffer(r_end),
                                           QueueSubmit(i, self, submit_info, r_submit) >>)
                  /\ submit_ret' = [submit_ret EXCEPT ![i] =
                          IF r_submit = "SUCCESS" THEN Returned("none", "SUCCESS", Ok)
                          ELSE Returned("queue_submit", r_submit, Err(r_submit))]
                  /\ panicked' = IF DropPanics(self) THEN DropMessage ELSE panicked
    /\ UNCHANGED << rp, new_ret, current_frame >>

\* ------------------------------------------------------------ specification
Next ==
    \/ \E i \in CBs, q \in QueueType : New(i, q)
    \/ \E i \in CBs, info \in BeginInfos : BeginRenderPass(i, info)
    \/ \E i \in CBs : DropRenderPassCommand(i)
    \/ \E i \in CBs : PipelineBarrier(i)
    \/ \E i \in CBs : BindDescriptorSets(i)
    \/ \E i \in CBs : BindPipeline(i)
    \/ \E i \in CBs : DrawIndexed(i)
    \/ \E i \in CBs : Draw(i)
    \/ \E i \in CBs : BindIndexBuffer(i)
    \/ \E i \in CBs, n_buffers \in 0..MaxBind, n_offsets \in 0..MaxBind :
            BindVertexBuffer(i, n_buffers, n_offsets)
    \/ \E i \in CBs : PushConstant(i)
    \/ \E i \in CBs, submit_info \in SubmitInfos : Submit(i, submit_info)
    \/ \E i \in CBs : DropCommandBuffer(i)

Spec == Init /\ [][Next]_vars

\* ------------------------------------------- frames: the recorder across frame slots
\* The swapchain moves gpu.swapchain.current_frame to the next in-flight slot
\* when a frame is presented.
AdvanceFrame ==
    /\ Running
    /\ current_frame' = (current_frame + 1) % NumFrameSlots
    /\ UNCHANGED << cb, rp, calls, new_ret, submit_ret, panicked, ops >>
    /\ UNCHANGED << resourceVars, arenaVars, writeVars, labelVars, materialVars >>

FrameInit ==
    /\ cb = [i \in CBs |-> NoBuffer]
    /\ rp = [i \in CBs |-> None]
    /\ calls = [i \in CBs |-> << >>]
    /\ new_ret = NotCalled
    /\ submit_ret = [i \in CBs |-> NotCalled]
    /\ current_frame \in FrameSlots
    /\ panicked = "none"
    /\ ops = 0
    /\ ResourcesInit /\ ArenaInit /\ WriteInit /\ LabelsInit /\ MaterialInit

FrameNext ==
    \/ \E i \in CBs, q \in QueueType : New(i, q)
    \/ \E i \in CBs : PipelineBarrier(i)
    \/ \E i \in CBs, submit_info \in SubmitInfos : Submit(i, submit_info)
    \/ \E i \in CBs : DropCommandBuffer(i)
    \/ AdvanceFrame

FrameSpec == FrameInit /\ [][FrameNext]_vars

\* ------------------------------------------------------------- debug labels
\* ScopedDebugLabel { inner: Option<ScopedDebugLabelInner> }; the inner value holds
\* the native command buffer (here: its slot), not a borrow of the CommandBuffer
Labels == 1..MaxLabels
NoLabel == [phase |-> "none", inner |-> None, closed_by |-> "none"]

\* ScopedDebugLabelInner::new: cmd_begin_debug_utils_label on the command buffer
ScopedDebugLabelInnerNew(l, command_buffer) ==
    [made  |-> << [op |-> "BeginDebugUtilsLabel", label |-> l] >>,
     inner |-> [label |-> l, command_buffer |-> command_buffer]]

\* ScopedDebugLabelInner::end: cmd_end_debug_utils_label on the stored command buffer
ScopedDebugLabelInnerEnd(inner) == << [op |-> "EndDebugUtilsLabel", label |-> inner.label] >>

\* `if let Some(label) = self.inner.take() { label.end(); }`: the calls made and
\* the ScopedDebugLabel left behind
TakeAndEnd_NoTake(label) ==
    [made  |-> IF IsSome(label.inner) THEN ScopedDebugLabelInnerEnd(Unwrap(label.inner)) ELSE << >>,
     label |-> label]
TakeAndEnd(label) ==
    [made  |-> IF IsSome(label.inner) THEN ScopedDebugLabelInnerEnd(Unwrap(label.inner)) ELSE << >>,
     label |-> [label EXCEPT !.inner = None]]

\* impl Drop for ScopedDebugLabel
ScopedDebugLabelDrop(label) == TakeAndEnd(label)

\* ScopedDebugLabel::end(mut self): the body, then the destructor of self
ScopedDebugLabelEnd(label) ==
    LET body == TakeAndEnd(label)
        dropped == ScopedDebugLabelDrop(body.label)
    IN [made |-> body.made \o dropped.made, label |-> dropped.label]

\* the client's label variables are interchangeable: they are taken in order
NextLabel(l) ==
    /\ labels[l].phase = "none"
    /\ \A j \in 1..(l - 1) : labels[j].phase # "none"

\* the native command buffer a label records into: the one it was begun on
LabelTarget(l) == Unwrap(labels[l].inner).command_buffer

\* CommandBuffer::begin_debug_region(&self, ..) -> ScopedDebugLabel: callable on the
\* CommandBuffer and, through Deref, on a RenderPassCommand; the returned value
\* has no lifetime parameter, so it borrows nothing
BeginDebugRegion(l, i) ==
    /\ Running
    /\ Live(i)
    /\ Room
    /\ ops' = ops + 1
    /\ NextLabel(l)
    /\ IF debug_utilities THEN
            LET new == ScopedDebugLabelInnerNew(l, i)
            IN /\ calls' = Record(i, new.made)
               /\ labels' = [labels EXCEPT ![l] =
                        [phase |-> "live", inner |-> Some(new.inner), closed_by |-> "none"]]
       ELSE
            /\ labels' = [labels EXCEPT ![l] =
                        [phase |-> "live", inner |-> None, closed_by |-> "none"]]
            /\ UNCHANGED calls
    /\ UNCHANGED << cb, rp, new_ret, submit_ret, current_frame, panicked, debug_utilities >>
    /\ UNCHANGED << resourceVars, arenaVars, writeVars, materialVars >>

\* what closing label l with `close` records, and where
CloseLabel(l, close) ==
    /\ labels' = [labels EXCEPT ![l] = close.label]
    /\ IF close.made = << >> THEN UNCHANGED calls
       ELSE calls' = Record(LabelTarget(l), close.made)

\* the client calls region.end()
EndDebugRegion(l) ==
    /\ Running
    /\ Room
    /\ ops' = ops + 1
    /\ labels[l].phase = "live"
    /\ LET close == ScopedDebugLabelEnd(labels[l])
       IN CloseLabel(l, [close EXCEPT !.label.phase = "destroyed", !.label.closed_by = "end"])
    /\ UNCHANGED << cb, rp, new_ret, submit_ret, current_frame, panicked, debug_utilities >>
    /\ UNCHANGED << resourceVars, arenaVars, writeVars, materialVars >>

\* the client lets the region go out of scope
DropDebugRegion(l) ==
    /\ Running
    /\ Room
    /\ ops' = ops + 1
    /\ labels[l].phase = "live"
    /\ LET close == ScopedDebugLabelDrop(labels[l])
       IN CloseLabel(l, [close EXCEPT !.label.phase = "destroyed", !.label.closed_by = "drop"])
    /\ UNCHANGED << cb, rp, new_ret, submit_ret, current_frame, panicked, debug_utilities >>
    /\ UNCHANGED << resourceVars, arenaVars, writeVars, materialVars >>

\* CommandBuffer::insert_debug_label(&self, ..)
InsertDebugLabel(i) ==
    /\ Running
    /\ Live(i)
    /\ Room
    /\ ops' = ops + 1
    /\ calls' = IF debug_utilities THEN Record(i, << Cmd("InsertDebugUtilsLabel") >>) ELSE calls
    /\ UNCHANGED << cb, rp, new_ret, submit_ret, current_frame, panicked, labelVars >>
    /\ UNCHANGED << resourceVars, arenaVars, writeVars, materialVars >>

\* the recorder on a Gpu with or without debug utilities
LabelInit ==
    /\ cb = [i \in CBs |-> NoBuffer]
    /\ rp = [i \in CBs |-> None]
    /\ calls = [i \in CBs |-> << >>]
    /\ new_ret = NotCalled
    /\ submit_ret = [i \in CBs |-> NotCalled]
    /\ current_frame = 0
    /\ panicked = "none"
    /\ ops = 0
    /\ debug_utilities \in BOOLEAN
    /\ labels = [l \in Labels |-> NoLabel]
    /\ ResourcesInit /\ ArenaInit /\ WriteInit /\ MaterialInit

\* regions are begun and closed around the recording of one CommandBuffer
LabelCBs == {i \in CBs : i = 1}

LabelNext ==
    \/ \E i \in LabelCBs, q \in QueueType : New(i, q)
    \/ \E i \in LabelCBs, info \in BeginInfos : BeginRenderPass(i, info)
    \/ \E i \in LabelCBs : DropRenderPassCommand(i)
    \/ \E i \in LabelCBs : PipelineBarrier(i)
    \/ \E i \in LabelCBs : BindDescriptorSets(i)
    \/ \E i \in LabelCBs : BindPipeline(i)
    \/ \E i \in LabelCBs : DrawIndexed(i)
    \/ \E i \in LabelCBs : Draw(i)
    \/ \E i \in LabelCBs : BindIndexBuffer(i)
    \/ \E i \in LabelCBs, n_buffers \in 0..MaxBind, n_offsets \in 0..MaxBind :
            BindVertexBuffer(i, n_buffers, n_offsets)
    \/ \E i \in LabelCBs : PushConstant(i)
    \/ \E i \in LabelCBs, submit_info \in SubmitInfos : Submit(i, submit_info)
    \/ \E i \in LabelCBs : DropCommandBuffer(i)
    \/ \E l \in Labels, i \in LabelCBs : BeginDebugRegion(l, i)
    \/ \E l \in Labels : EndDebugRegion(l)
    \/ \E l \in Labels : DropDebugRegion(l)
    \/ \E i \in LabelCBs : InsertDebugLabel(i)

LabelSpec == LabelInit /\ [][LabelNext]_vars

\* ----------------------------------------------------------- memory allocator
\* allocate(size, alignment, domain) -> Allocation | OutOfMemory and
\* deallocate(Allocation), over one free list per memory domain, first fit
Allocators == 1..NumAllocators
\* the client has a variable for every resource it may create
Resources == 1..MaxResOps
\* requested sizes and alignments: up to one byte less than a whole domain
MaxAllocSize == DomainCapacity - 1
MemoryDomain == {"DeviceLocal", "HostVisible"}

Block(offset, size) == [offset |-> offset, size |-> size]
FreshAllocator == [d \in MemoryDomain |-> << Block(0, DomainCapacity) >>]

AlignUp(offset, alignment) == ((offset + alignment - 1) \div alignment) * alignment
\* whether an allocation of `size` at `alignment` fits in the free block b
Fits(b, size, alignment) == AlignUp(b.offset, alignment) + size <= b.offset + b.size
\* index of the first free block that fits, 0 when none does
FirstFit(free, size, alignment) ==
    IF \E k \in DOMAIN free : Fits(free[k], size, alignment)
    THEN CHOOSE k \in DOMAIN free :
            /\ Fits(free[k], size, alignment)
            /\ \A j \in 1..(k - 1) : ~Fits(free[j], size, alignment)
    ELSE 0

\* the free list with block k cut into the padding before the allocation and the rest after it
Carve(free, k, size, alignment) ==
    LET b == free[k]
        at == AlignUp(b.offset, alignment)
        before == IF at > b.offset THEN << Block(b.offset, at - b.offset) >> ELSE << >>
        after == IF at + size < b.offset + b.size
                 THEN << Block(at + size, b.offset + b.size - (at + size)) >> ELSE << >>
    IN SubSeq(free, 1, k - 1) \o before \o after \o SubSeq(free, k + 1, Len(free))

\* MemoryAllocation: offset, size, domain, optional persistent host pointer;
\* id (the slot of its owner) tells apart two allocations of the same region made
\* at different times
MemoryAllocation(id, offset, size, domain) ==
    [id |-> id, offset |-> offset, size |-> size, domain |-> domain,
     persistent_ptr |-> (domain = "HostVisible")]

\* deallocate: the region goes back to the free list of its domain, in address order
Deallocate(state, allocation) ==
    LET free == state[allocation.domain]
        lower == SelectSeq(free, LAMBDA b : b.offset < allocation.offset)
        upper == SelectSeq(free, LAMBDA b : b.offset >= allocation.offset)
    IN [state EXCEPT ![allocation.domain] =
            lower \o << Block(allocation.offset, allocation.size) >> \o upper]

\* free capacity of a domain of an allocator
RECURSIVE SumSizes(_)
SumSizes(free) == IF free = << >> THEN 0 ELSE Head(free).size + SumSizes(Tail(free))
FreeCapacity(a, d) == SumSizes(allocators[a][d])

\* ------------------------------------------------------ GpuBuffer and GpuImage
NoResource ==
    [kind |-> "none", phase |-> "none", inner |-> 0, memory_domain |-> "none",
     allocation |-> None, allocator |-> None]

\* GpuBuffer::create
GpuBufferCreate(buffer, memory_domain, allocation, allocator) ==
    [kind |-> "GpuBuffer", phase |-> "live", inner |-> buffer, memory_domain |-> memory_domain,
     allocation |-> Some(allocation), allocator |-> Some(allocator)]
\* GpuImage::create
GpuImageCreate(image, allocation, allocator) ==
    [kind |-> "GpuImage", phase |-> "live", inner |-> image, memory_domain |-> "none",
     allocation |-> Some(allocation), allocator |-> Some(allocator)]
\* GpuImage::wrap: an image owned by the swapchain
GpuImageWrap(inner) ==
    [kind |-> "GpuImage", phase |-> "live", inner |-> inner, memory_domain |-> "none",
     allocation |-> None, allocator |-> None]

DeallocateCall(allocator, allocation) ==
    [op |-> "deallocate", allocator |-> allocator, allocation |-> allocation]
DestroyCall(op, inner) == [op |-> op, inner |-> inner]

\* impl Drop for GpuBuffer: the calls it makes, in order
GpuBufferDrop_DestroyFirst(b) ==
    << DestroyCall("destroy_buffer", b.inner),
       DeallocateCall(Unwrap(b.allocator), Unwrap(b.allocation)) >>
GpuBufferDrop_NoDeallocate(b) == << DestroyCall("destroy_buffer", b.inner) >>
GpuBufferDrop(b) ==
    << DeallocateCall(Unwrap(b.allocator), Unwrap(b.allocation)),
       DestroyCall("destroy_buffer", b.inner) >>

\* impl Drop for GpuImage: nothing for a wrapped image
GpuImageDrop_AlwaysDestroy(img) == << DestroyCall("destroy_image", img.inner) >>
GpuImageDrop(img) ==
    IF IsSome(img.allocator) /\ IsSome(img.allocation)
    THEN << DeallocateCall(Unwrap(img.allocator), Unwrap(img.allocation)),
            DestroyCall("destroy_image", img.inner) >>
    ELSE << >>

\* the allocators after the deallocate calls among `made` have run
RECURSIVE AfterCalls(_, _)
AfterCalls(state, made) ==
    IF made = << >> THEN state
    ELSE LET c == Head(made)
             next == IF c.op = "deallocate"
                     THEN [state EXCEPT ![c.allocator] = Deallocate(state[c.allocator], c.allocation)]
                     ELSE state
         IN AfterCalls(next, Tail(made))

ResRoom == ops < MaxResOps
\* the client's resource variables are interchangeable: they are taken in order
NextResource(r) ==
    /\ resources[r].phase = "none"
    /\ \A j \in 1..(r - 1) : resources[j].phase # "none"
\* the Gpu instances are interchangeable too: the allocator of the next one is
\* used once the allocator before it has been
NextAllocator(a) ==
    a = 1 \/ \E r \in Resources : resources[r].allocator = Some(a - 1)
\* the calls made for resource r, with `made` after them
MadeFor(r, made) == [driver EXCEPT !.resources[r] = driver.resources[r] \o made]

\* Gpu::create_buffer / Gpu::create_image: the native object is created, its memory
\* is taken from the allocator `a` of the Gpu, and both are handed to
\* GpuBuffer::create / GpuImage::create together with that allocator
CreateResource(r, kind, a, domain, size, alignment) ==
    /\ Running
    /\ ResRoom
    /\ ops' = ops + 1
    /\ NextResource(r)
    /\ NextAllocator(a)
    /\ LET free == allocators[a][domain]
           k == FirstFit(free, size, alignment)
       IN IF k = 0 THEN
                \* OutOfMemory is returned to the caller: no object exists
                /\ UNCHANGED << allocators, resources, driver >>
          ELSE LET allocation == MemoryAllocation(r,
                                    AlignUp(free[k].offset, alignment), size, domain)
               IN /\ allocators' = [allocators EXCEPT ![a][domain] = Carve(free, k, size, alignment)]
                  /\ driver' = MadeFor(r,
                        << [op |-> "allocate", allocator |-> a, allocation |-> allocation] >>)
                  /\ resources' = [resources EXCEPT ![r] =
                        IF kind = "GpuBuffer" THEN GpuBufferCreate(r, domain, allocation, a)
                        ELSE GpuImageCreate(r, allocation, a)]
    /\ UNCHANGED << ds_allocators, descriptor_sets, panicked >>
    /\ UNCHANGED << recorderVars, arenaVars, writeVars, labelVars, materialVars >>

\* the swapchain wraps one of its images
WrapImage(r) ==
    /\ Running
    /\ ResRoom
    /\ ops' = ops + 1
    /\ NextResource(r)
    /\ resources' = [resources EXCEPT ![r] = GpuImageWrap(r)]
    /\ UNCHANGED << allocators, ds_allocators, descriptor_sets, driver, panicked >>
    /\ UNCHANGED << recorderVars, arenaVars, writeVars, labelVars, materialVars >>

\* a GpuBuffer goes out of scope
DropGpuBuffer(r) ==
    /\ Running
    /\ ResRoom
    /\ ops' = ops + 1
    /\ resources[r].kind = "GpuBuffer" /\ resources[r].phase = "live"
    /\ driver' = MadeFor(r, GpuBufferDrop(resources[r]))
    /\ allocators' = AfterCalls(allocators, GpuBufferDrop(resources[r]))
    /\ resources' = [resources EXCEPT ![r].phase = "destroyed"]
    /\ UNCHANGED << ds_allocators, descriptor_sets, panicked >>
    /\ UNCHANGED << recorderVars, arenaVars, writeVars, labelVars, materialVars >>

\* a GpuImage goes out of scope
DropGpuImage(r) ==
    /\ Running
    /\ ResRoom
    /\ ops' = ops + 1
    /\ resources[r].kind = "GpuImage" /\ resources[r].phase = "live"
    /\ driver' = MadeFor(r, GpuImageDrop(resources[r]))
    /\ allocators' = AfterCalls(allocators, GpuImageDrop(resources[r]))
    /\ resources' = [resources EXCEPT ![r].phase = "destroyed"]
    /\ UNCHANGED << ds_allocators, descriptor_sets, panicked >>
    /\ UNCHANGED << recorderVars, arenaVars, writeVars, labelVars, materialVars >>

\* ------------------------------------------------- descriptor-set allocator
\* allocate(DescriptorSetInfo) and deallocate(DescriptorSetAllocation) over pool
\* pages sized for SetsPerPool sets of one shape
Sets == 1..MaxResOps
PoolPage(used) == [used |-> used]
FreshDescriptorSetAllocator == [pools |-> << PoolPage(0) >>, current |-> 1]

\* the pool page the allocator allocates from has no set left
PoolExhausted(state) == state.pools[state.current].used >= SetsPerPool

\* a new pool page is created and the allocator switches to allocating from it
GrowPools_KeepCurrent(state) ==
    [state EXCEPT !.pools = Append(state.pools, PoolPage(0))]
GrowPools(state) ==
    [pools |-> Append(state.pools, PoolPage(0)), current |-> Len(state.pools) + 1]

\* one set is taken from the current page
TakeSet(state) ==
    [state EXCEPT !.pools[state.current].used = state.pools[state.current].used + 1]
\* a freed set is returned to its originating pool page
ReturnSet(state, allocation) ==
    [state EXCEPT !.pools[allocation.owner_pool].used =
                        state.pools[allocation.owner_pool].used - 1]

DescriptorSetAllocation(id, owner_pool) ==
    [id |-> id, descriptor_set |-> id, owner_pool |-> owner_pool]
NoDescriptorSetAllocation == DescriptorSetAllocation(0, 0)

\* --------------------------------------------------------- GpuDescriptorSet
NoDescriptorSet ==
    [phase |-> "none", inner |-> 0, allocation |-> NoDescriptorSetAllocation, allocator |-> 0]

\* GpuDescriptorSet::create
GpuDescriptorSetCreate(allocation, allocator) ==
    [phase |-> "live", inner |-> allocation.descriptor_set,
     allocation |-> allocation, allocator |-> allocator]

\* impl Drop for GpuDescriptorSet: self.allocator.borrow_mut().deallocate(&self.allocation)
GpuDescriptorSetDrop_FirstAllocator(set) ==
    [op |-> "ds_deallocate", allocator |-> 1, allocation |-> set.allocation]
GpuDescriptorSetDrop(set) ==
    [op |-> "ds_deallocate", allocator |-> set.allocator, allocation |-> set.allocation]

NextDescriptorSet(s) ==
    /\ descriptor_sets[s].phase = "none"
    /\ \A j \in 1..(s - 1) : descriptor_sets[j].phase # "none"
NextDescriptorSetAllocator(d) ==
    d = 1 \/ \E s \in Sets : descriptor_sets[s].allocator = d - 1
\* the calls made for descriptor set s, with `call` after them
MadeForSet(s, call) ==
    [driver EXCEPT !.descriptor_sets[s] = Append(driver.descriptor_sets[s], call)]

DsAllocateCall(d, exhausted, created_pool, result, allocation) ==
    [op |-> "ds_allocate", allocator |-> d, exhausted |-> exhausted,
     created_pool |-> created_pool, result |-> result, allocation |-> allocation]

\* Gpu::create_descriptor_set: a set is taken from the allocator `d` of the Gpu and
\* handed to GpuDescriptorSet::create together with that allocator
CreateDescriptorSet(s, d) ==
    /\ Running
    /\ ResRoom
    /\ ops' = ops + 1
    /\ NextDescriptorSet(s)
    /\ NextDescriptorSetAllocator(d)
    /\ LET exhausted == PoolExhausted(ds_allocators[d]) IN
       \E r_pool \in (IF exhausted THEN VkResults ELSE {"SUCCESS"}) :
       IF r_pool # "SUCCESS" THEN
            \* the pool cannot grow: the error is returned, no set exists
            /\ driver' = MadeForSet(s,
                    DsAllocateCall(d, exhausted, FALSE, r_pool, NoDescriptorSetAllocation))
            /\ UNCHANGED << ds_allocators, descriptor_sets >>
       ELSE LET pools == IF exhausted THEN GrowPools(ds_allocators[d]) ELSE ds_allocators[d]
                allocation == DescriptorSetAllocation(s, pools.current)
            IN /\ ds_allocators' = [ds_allocators EXCEPT ![d] = TakeSet(pools)]
               /\ driver' = MadeForSet(s,
                        DsAllocateCall(d, exhausted, exhausted, "SUCCESS", allocation))
               /\ descriptor_sets' = [descriptor_sets EXCEPT ![s] =
                        GpuDescriptorSetCreate(allocation, d)]
    /\ UNCHANGED << allocators, resources, panicked >>
    /\ UNCHANGED << recorderVars, arenaVars, writeVars, labelVars, materialVars >>

\* a GpuDescriptorSet goes out of scope
DropGpuDescriptorSet_ErrorIgnored(s) ==
    /\ Running
    /\ ResRoom
    /\ ops' = ops + 1
    /\ descriptor_sets[s].phase = "live"
    /\ LET call == GpuDescriptorSetDrop(descriptor_sets[s]) IN
       \E result \in VkResults :
            /\ driver' = MadeForSet(s, call @@ [result |-> result])
            /\ ds_allocators' = IF result = "SUCCESS"
                                THEN [ds_allocators EXCEPT ![call.allocator] =
                                        ReturnSet(ds_allocators[call.allocator], call.allocation)]
                                ELSE ds_allocators
    /\ descriptor_sets' = [descriptor_sets EXCEPT ![s].phase = "destroyed"]
    /\ UNCHANGED << allocators, resources, panicked >>
    /\ UNCHANGED << recorderVars, arenaVars, writeVars, labelVars, materialVars >>
DropGpuDescriptorSet(s) ==
    /\ Running
    /\ ResRoom
    /\ ops' = ops + 1
    /\ descriptor_sets[s].phase = "live"
    /\ LET call == GpuDescriptorSetDrop(descriptor_sets[s]) IN
       \E result \in VkResults :
            /\ driver' = MadeForSet(s, call @@ [result |-> result])
            /\ IF result = "SUCCESS" THEN
                    /\ ds_allocators' = [ds_allocators EXCEPT ![call.allocator] =
                            ReturnSet(ds_allocators[call.allocator], call.allocation)]
                    /\ UNCHANGED panicked
               ELSE
                    \* .expect("Failed to deallocate descriptor set")
                    /\ panicked' = "Failed to deallocate descriptor set"
                    /\ UNCHANGED ds_allocators
    /\ descriptor_sets' = [descriptor_sets EXCEPT ![s].phase = "destroyed"]
    /\ UNCHANGED << allocators, resources >>
    /\ UNCHANGED << recorderVars, arenaVars, writeVars, labelVars, materialVars >>

\* what the client asks for: host-visible buffers of any alignment-free size, and
\* device-local images, which the device wants aligned
CreateInfos ==
    {[kind |-> "GpuBuffer", domain |-> "HostVisible", size |-> n, alignment |-> 1] :
        n \in 1..MaxAllocSize}
    \cup
    {[kind |-> "GpuImage", domain |-> "DeviceLocal", size |-> n, alignment |-> MaxAllocSize] :
        n \in 1..MaxAllocSize}

ResSpecInit ==
    /\ cb = [i \in CBs |-> NoBuffer]
    /\ rp = [i \in CBs |-> None]
    /\ calls = [i \in CBs |-> << >>]
    /\ new_ret = NotCalled
    /\ submit_ret = [i \in CBs |-> NotCalled]
    /\ current_frame = 0
    /\ panicked = "none"
    /\ ops = 0
    /\ allocators = [a \in Allocators |-> FreshAllocator]
    /\ resources = [r \in Resources |-> NoResource]
    /\ ds_allocators = [d \in Allocators |-> FreshDescriptorSetAllocator]
    /\ descriptor_sets = [s \in Sets |-> NoDescriptorSet]
    /\ driver = [resources |-> [r \in Resources |-> << >>],
                 descriptor_sets |-> [s \in Sets |-> << >>]]
    /\ ArenaInit /\ WriteInit /\ LabelsInit /\ MaterialInit

ResNext ==
    \/ \E r \in Resources, a \in Allocators, info \in CreateInfos :
            CreateResource(r, info.kind, a, info.domain, info.size, info.alignment)
    \/ \E r \in Resources : WrapImage(r)
    \/ \E r \in Resources : DropGpuBuffer(r)
    \/ \E r \in Resources : DropGpuImage(r)
    \/ \E s \in Sets, d \in Allocators : CreateDescriptorSet(s, d)
    \/ \E s \in Sets : DropGpuDescriptorSet(s)

ResSpec == ResSpecInit /\ [][ResNext]_vars

\* ------------------------------------------------------------------ materials
\* engine/src/material: the descriptor lists of Material::new and of
\* MaterialInstance::create_user_descriptor_set, and create_instance
UniformBufferDescriptor(binding) == [binding |-> binding, element_type |-> "UniformBuffer"]
CombinedImageSamplerDescriptor(binding) ==
    [binding |-> binding, element_type |-> "CombinedImageSampler"]

\* one `for` loop of Material::new: a descriptor pushed per element, bind_index += 1
RECURSIVE PushEach(_, _, _)
PushEach(state, element_type, count) ==
    IF count = 0 THEN state
    ELSE PushEach(
            [uniform_descriptors |-> Append(state.uniform_descriptors,
                    [binding |-> state.bind_index, element_type |-> element_type]),
             bind_index |-> state.bind_index + 1],
            element_type, count - 1)

\* Material::new: the list handed to create_descriptor_set, uniform buffers first
MaterialDescriptors(n_buffers, n_textures) ==
    LET start == [uniform_descriptors |-> << >>, bind_index |-> 0]
        buffers == PushEach(start, "UniformBuffer", n_buffers)
    IN PushEach(buffers, "CombinedImageSampler", n_textures).uniform_descriptors

\* create_user_descriptor_set: master.texture_inputs.iter().enumerate().map(..), then
\* the parameter buffer pushed at binding descriptors.len()
UserDescriptors_BufferFirst(n_textures, has_param_buffer) ==
    LET descriptors == [i \in 1..n_textures |-> CombinedImageSamplerDescriptor(i - 1)]
    IN IF has_param_buffer
       THEN Append(descriptors, UniformBufferDescriptor(0))
       ELSE descriptors
UserDescriptors(n_textures, has_param_buffer) ==
    LET descriptors == [i \in 1..n_textures |-> CombinedImageSamplerDescriptor(i - 1)]
    IN IF has_param_buffer
       THEN Append(descriptors, UniformBufferDescriptor(Len(descriptors)))
       ELSE descriptors

\* the MasterMaterial and description the client passes: the master's parameters
\* and texture inputs by their numbers, and whether the description's
\* texture_inputs map has an entry for every texture input of the master; the
\* parameter blocks are large enough for device-local memory to run out
Masters ==
    {m \in [n_parameters : 0..1, parameter_block_size : {MaxAllocSize},
            n_textures : 0..MaxDescriptors, described : BOOLEAN] :
        m.n_textures = 0 => m.described}

\* the engine's Gpu: the first memory allocator and descriptor-set allocator
GpuAllocator == 1

\* Gpu::create_descriptor_set on the engine's Gpu for set slot s: the allocator
\* after it, the call made, and the set (none when the pool cannot grow)
SetCreation(s, r_pool) ==
    LET state == ds_allocators[GpuAllocator]
        exhausted == PoolExhausted(state)
        pools == IF exhausted THEN GrowPools(state) ELSE state
        allocation == DescriptorSetAllocation(s, pools.current)
    IN IF r_pool # "SUCCESS"
       THEN [state |-> state,
             call  |-> DsAllocateCall(GpuAllocator, exhausted, FALSE, r_pool,
                                      NoDescriptorSetAllocation),
             set   |-> NoDescriptorSet]
       ELSE [state |-> TakeSet(pools),
             call  |-> DsAllocateCall(GpuAllocator, exhausted, exhausted, "SUCCESS", allocation),
             set   |-> GpuDescriptorSetCreate(allocation, GpuAllocator)]
\* the answers the driver can give when a pool page has to be created
PoolResults == IF PoolExhausted(ds_allocators[GpuAllocator]) THEN VkResults ELSE {"SUCCESS"}

NotCalledYet == [ok |-> FALSE, err |-> "not called"]
OutOfMemory == Err("OutOfMemory")
NoMaterialCall ==
    [n_buffers |-> 0, n_textures |-> 0, descriptors |-> << >>, ret |-> NotCalledYet]
CreateInstanceReturned(master, created_buffer, parameter_buffer, descriptors, set, ret) ==
    [master |-> master, created_buffer |-> created_buffer,
     parameter_buffer |-> parameter_buffer, descriptors |-> descriptors,
     user_descriptor_set |-> set, ret |-> ret]
NoInstanceCall ==
    CreateInstanceReturned(
        [n_parameters |-> 0, parameter_block_size |-> 1, n_textures |-> 0, described |-> TRUE],
        None, None, << >>, None, NotCalledYet)

\* the client creates materials and instances until the first pool page of the
\* descriptor-set allocator is used up and one more set is asked for
MaterialRoom == ops < SetsPerPool + 1 /\ ops < MaxResOps

\* Material::new(gpu, resource_map, pipelines, uniform_buffers, textures)
MaterialNew(s, n_buffers, n_textures) ==
    /\ Running
    /\ MaterialRoom
    /\ ops' = ops + 1
    /\ NextDescriptorSet(s)
    /\ \E r_pool \in PoolResults :
        LET creation == SetCreation(s, r_pool)
        IN /\ ds_allocators' = [ds_allocators EXCEPT ![GpuAllocator] = creation.state]
           /\ driver' = MadeForSet(s, creation.call)
           /\ descriptor_sets' = [descriptor_sets EXCEPT ![s] = creation.set]
           /\ material_ret' =
                    [n_buffers |-> n_buffers, n_textures |-> n_textures,
                     descriptors |-> MaterialDescriptors(n_buffers, n_textures),
                     ret |-> IF r_pool = "SUCCESS" THEN Ok ELSE Err(r_pool)]
    /\ UNCHANGED << allocators, resources, panicked, instance_ret >>
    /\ UNCHANGED << recorderVars, arenaVars, writeVars, labelVars >>

\* the local `parameter_buffer: Option<GpuBuffer>` of create_instance goes out of
\* scope without having been moved into a MaterialInstance: the calls its
\* destructor makes
ParameterBufferDropped_Leaked(parameter_buffer) == << >>
ParameterBufferDropped(parameter_buffer) ==
    IF IsSome(parameter_buffer) THEN GpuBufferDrop(Unwrap(parameter_buffer)) ELSE << >>

\* MaterialInstance::create_instance(gpu, owner, resource_map, description); r and s
\* are the slots of the buffer and of the set it may create
CreateInstance(r, s, master) ==
    /\ Running
    /\ MaterialRoom
    /\ ops' = ops + 1
    /\ NextResource(r)
    /\ NextDescriptorSet(s)
    /\ UNCHANGED material_ret
    /\ UNCHANGED << recorderVars, arenaVars, writeVars, labelVars >>
    /\ LET wants == master.n_parameters > 0
           size == master.parameter_block_size
           free == allocators[GpuAllocator]["DeviceLocal"]
           k == FirstFit(free, size, 1)
       IN
       IF wants /\ k = 0 THEN
            \* gpu.create_buffer(..)? returns the error
            /\ instance_ret' = CreateInstanceReturned(master, None, None, << >>, None, OutOfMemory)
            /\ UNCHANGED << resourceVars, panicked >>
       ELSE
       LET allocation == MemoryAllocation(r, AlignUp(free[k].offset, 1), size, "DeviceLocal")
           buffer == GpuBufferCreate(r, "DeviceLocal", allocation, GpuAllocator)
           parameter_buffer == IF wants THEN Some(buffer) ELSE None
           created == IF wants THEN Some(r) ELSE None
           allocated == IF wants
                        THEN [allocators EXCEPT ![GpuAllocator]["DeviceLocal"] =
                                    Carve(free, k, size, 1)]
                        ELSE allocators
           made == IF wants
                   THEN << [op |-> "allocate", allocator |-> GpuAllocator,
                            allocation |-> allocation] >>
                   ELSE << >>
           dropped == ParameterBufferDropped(parameter_buffer)
           descriptors == UserDescriptors(master.n_textures, IsSome(parameter_buffer))
       IN
       IF master.n_textures > 0 /\ ~master.described THEN
            \* description.texture_inputs[&tex.name] panics; whether the unwinding
            \* runs the destructor of parameter_buffer is the build's panic strategy
            \E unwinds \in BOOLEAN :
                /\ panicked' = "key not found in texture_inputs"
                /\ instance_ret' = CreateInstanceReturned(master, created, None, << >>, None, Panic)
                /\ driver' = MadeFor(r, IF unwinds THEN made \o dropped ELSE made)
                /\ allocators' = IF unwinds THEN AfterCalls(allocated, dropped) ELSE allocated
                /\ resources' = IF wants
                                THEN [resources EXCEPT ![r] =
                                        [buffer EXCEPT !.phase =
                                            IF unwinds THEN "destroyed" ELSE "leaked"]]
                                ELSE resources
                /\ UNCHANGED << ds_allocators, descriptor_sets >>
       ELSE
       \E r_pool \in PoolResults :
       LET creation == SetCreation(s, r_pool) IN
       /\ UNCHANGED panicked
       /\ ds_allocators' = [ds_allocators EXCEPT ![GpuAllocator] = creation.state]
       /\ descriptor_sets' = [descriptor_sets EXCEPT ![s] = creation.set]
       /\ IF r_pool # "SUCCESS" THEN
                \* create_user_descriptor_set(..)? returns the error: parameter_buffer
                \* goes out of scope
                /\ instance_ret' = CreateInstanceReturned(master, created, None, descriptors,
                                                          None, Err(r_pool))
                /\ driver' = [driver EXCEPT
                        !.resources[r] = driver.resources[r] \o made \o dropped,
                        !.descriptor_sets[s] = Append(driver.descriptor_sets[s], creation.call)]
                /\ allocators' = AfterCalls(allocated, dropped)
                /\ resources' = IF wants
                                THEN [resources EXCEPT ![r] = [buffer EXCEPT !.phase = "destroyed"]]
                                ELSE resources
          ELSE
                /\ instance_ret' = CreateInstanceReturned(master, created, created, descriptors,
                                                          Some(s), Ok)
                /\ driver' = [driver EXCEPT
                        !.resources[r] = driver.resources[r] \o made,
                        !.descriptor_sets[s] = Append(driver.descriptor_sets[s], creation.call)]
                /\ allocators' = allocated
                /\ resources' = IF wants THEN [resources EXCEPT ![r] = buffer] ELSE resources

MaterialSpecInit ==
    /\ cb = [i \in CBs |-> NoBuffer]
    /\ rp = [i \in CBs |-> None]
    /\ calls = [i \in CBs |-> << >>]
    /\ new_ret = NotCalled
    /\ submit_ret = [i \in CBs |-> NotCalled]
    /\ current_frame = 0
    /\ panicked = "none"
    /\ ops = 0
    /\ allocators = [a \in Allocators |-> FreshAllocator]
    /\ resources = [r \in Resources |-> NoResource]
    /\ ds_allocators = [d \in Allocators |-> FreshDescriptorSetAllocator]
    /\ descriptor_sets = [s \in Sets |-> NoDescriptorSet]
    /\ driver = [resources |-> [r \in Resources |-> << >>],
                 descriptor_sets |-> [s \in Sets |-> << >>]]
    /\ material_ret = NoMaterialCall
    /\ instance_ret = NoInstanceCall
    /\ ArenaInit /\ WriteInit /\ LabelsInit

MaterialNext ==
    \/ \E s \in Sets, n_buffers \in 0..MaxDescriptors, n_textures \in 0..MaxDescriptors :
            MaterialNew(s, n_buffers, n_textures)
    \/ \E r \in Resources, s \in Sets, master \in Masters : CreateInstance(r, s, master)

MaterialSpec == MaterialSpecInit /\ [][MaterialNext]_vars

\* ------------------------------------------------------ resource handle arena
\* add(T) -> ResourceHandle<T> and get(&ResourceHandle<T>) -> &T over a growable
\* slot table; a handle is a (generation, index) pair counted in its slot
Handles == 1..MaxArenaOps
NoObject == 0
Slot(generation, strong, value) == [generation |-> generation, strong |-> strong, value |-> value]
NoHandle == [phase |-> "none", index |-> 0, generation |-> 0, object |-> NoObject]
Handle(index, generation, object) ==
    [phase |-> "alive", index |-> index, generation |-> generation, object |-> object]

Vacant(slot) == slot.value = NoObject
\* index of the slot `add` uses: a vacated slot if there is one, else a new one
SlotForAdd ==
    IF \E k \in DOMAIN slots : Vacant(slots[k])
    THEN CHOOSE k \in DOMAIN slots :
            Vacant(slots[k]) /\ \A j \in 1..(k - 1) : ~Vacant(slots[j])
    ELSE Len(slots) + 1

\* the slot once its last handle is gone: T is destructed, the generation bumped
Vacate_KeepGeneration(slot) == Slot(slot.generation, 0, NoObject)
Vacate(slot) == Slot(slot.generation + 1, 0, NoObject)

\* the slot after one of its handles is dropped
Release_AlwaysVacate(slot) == Vacate(slot)
Release(slot) ==
    IF slot.strong - 1 = 0 THEN Vacate(slot)
    ELSE [slot EXCEPT !.strong = slot.strong - 1]

\* get: the object of the slot if the key's generation is the slot's, else no object
Resolve(index, generation) ==
    IF /\ index \in DOMAIN slots
       /\ ~Vacant(slots[index])
       /\ slots[index].generation = generation
    THEN slots[index].value
    ELSE NoObject

ArenaRoom == ops < MaxArenaOps
\* the client's handle variables are interchangeable: they are taken in order
NextHandle(h) ==
    /\ handles[h].phase = "none"
    /\ \A j \in 1..(h - 1) : handles[j].phase # "none"

\* resource_map.add(object): the object is named after the variable that receives its handle
Add(h) ==
    /\ Running
    /\ ArenaRoom
    /\ ops' = ops + 1
    /\ NextHandle(h)
    /\ LET k == SlotForAdd
           generation == IF k \in DOMAIN slots THEN slots[k].generation ELSE 0
       IN /\ slots' = IF k \in DOMAIN slots
                       THEN [slots EXCEPT ![k] = Slot(generation, 1, h)]
                       ELSE Append(slots, Slot(generation, 1, h))
          /\ handles' = [handles EXCEPT ![h] = Handle(k, generation, h)]
    /\ UNCHANGED panicked
    /\ UNCHANGED << recorderVars, resourceVars, writeVars, labelVars, materialVars >>

\* handle.clone()
CloneHandle(h, c) ==
    /\ Running
    /\ ArenaRoom
    /\ ops' = ops + 1
    /\ handles[h].phase = "alive"
    /\ NextHandle(c)
    /\ slots' = [slots EXCEPT ![handles[h].index].strong = slots[handles[h].index].strong + 1]
    /\ handles' = [handles EXCEPT ![c] = handles[h]]
    /\ UNCHANGED panicked
    /\ UNCHANGED << recorderVars, resourceVars, writeVars, labelVars, materialVars >>

\* a handle goes out of scope; the client may have kept its (generation, index) pair
DropHandle(h) ==
    /\ Running
    /\ ArenaRoom
    /\ ops' = ops + 1
    /\ handles[h].phase = "alive"
    /\ slots' = [slots EXCEPT ![handles[h].index] = Release(slots[handles[h].index])]
    /\ handles' = [handles EXCEPT ![h].phase = "dropped"]
    /\ UNCHANGED panicked
    /\ UNCHANGED << recorderVars, resourceVars, writeVars, labelVars, materialVars >>

\* resource_map.get(&handle), also with a key kept from a dropped handle: resolving
\* a stale key is a fatal error
Get(h) ==
    /\ Running
    /\ ArenaRoom
    /\ ops' = ops + 1
    /\ handles[h].phase # "none"
    /\ panicked' = IF Resolve(handles[h].index, handles[h].generation) = NoObject
                   THEN "stale resource handle" ELSE panicked
    /\ UNCHANGED << slots, handles >>
    /\ UNCHANGED << recorderVars, resourceVars, writeVars, labelVars, materialVars >>

ArenaSpecInit ==
    /\ cb = [i \in CBs |-> NoBuffer]
    /\ rp = [i \in CBs |-> None]
    /\ calls = [i \in CBs |-> << >>]
    /\ new_ret = NotCalled
    /\ submit_ret = [i \in CBs |-> NotCalled]
    /\ current_frame = 0
    /\ panicked = "none"
    /\ ops = 0
    /\ slots = << >>
    /\ handles = [h \in Handles |-> NoHandle]
    /\ ResourcesInit /\ WriteInit /\ LabelsInit /\ MaterialInit

ArenaNext ==
    \/ \E h \in Handles : Add(h)
    \/ \E h, c \in Handles : CloneHandle(h, c)
    \/ \E h \in Handles : DropHandle(h)
    \/ \E h \in Handles : Get(h)

ArenaSpec == ArenaSpecInit /\ [][ArenaNext]_vars

\* ------------------------------------------------------ GpuBuffer::write_data
\* size_of::<I>() of the element types the client writes (u8, u16)
ElemSizes == {1, 2}
\* values of an element of `width` bytes: the smallest and the largest but one
ElemVals(width) == {1, (256 ^ width) - 2}
\* the bytes already in the buffer
FillBytes == {0, 255}

\* the bytes of one element in memory (little-endian target)
ToBytes(v, width) == [k \in 1..width |-> (v \div (256 ^ (k - 1))) % 256]
\* the bytes of the slice `data`: its elements one after the other
SliceBytes(data, width) ==
    [k \in 1..(Len(data) * width) |->
        ToBytes(data[((k - 1) \div width) + 1], width)[((k - 1) % width) + 1]]

\* address.copy_from_slice(data), address being persistent_ptr + offset
CopyFromSlice_AtStart(bytes, offset, src) ==
    [k \in 1..Len(bytes) |-> IF k <= Len(src) THEN src[k] ELSE bytes[k]]
CopyFromSlice(bytes, offset, src) ==
    [k \in 1..Len(bytes) |->
        IF k > offset /\ k <= offset + Len(src) THEN src[k - offset] ELSE bytes[k]]

NoWrite == [offset |-> 0, width |-> 1, data |-> << >>, before |-> << >>, outcome |-> "none"]
Written(offset, width, data, outcome) ==
    [offset |-> offset, width |-> width, data |-> data,
     before |-> host_buffer.bytes, outcome |-> outcome]

\* slice::from_raw_parts_mut on a pointer not aligned for I is undefined behaviour:
\* the build either copies, or stops on the precondition check of from_raw_parts_mut
RawPartsOutcomes(offset, width) ==
    IF offset % width = 0 THEN {"copied"} ELSE {"copied", "aborted"}

WriteDataPanic_NoPointerCheck(offset, width, data) ==
    LET data_length == Len(data) * width IN
    IF ~(data_length > 0) THEN "Cannot write on a buffer with 0 data length!"
    ELSE IF ~(offset < host_buffer.size) THEN "assertion failed: offset < self.allocation.size"
    ELSE IF ~(data_length + offset <= host_buffer.size)
        THEN "assertion failed: data_length + offset <= self.allocation.size"
    ELSE "none"
WriteDataPanic(offset, width, data) ==
    LET data_length == Len(data) * width IN
    IF ~(data_length > 0) THEN "Cannot write on a buffer with 0 data length!"
    ELSE IF ~(offset < host_buffer.size) THEN "assertion failed: offset < self.allocation.size"
    ELSE IF ~(data_length + offset <= host_buffer.size)
        THEN "assertion failed: data_length + offset <= self.allocation.size"
    ELSE IF ~host_buffer.persistent_ptr THEN "Tried to write to a buffer without a persistent ptr!"
    ELSE "none"

WriteData(offset, width, data) ==
    /\ Running
    /\ ops < MaxWrites
    /\ ops' = ops + 1
    /\ IF WriteDataPanic(offset, width, data) # "none" THEN
            /\ panicked' = WriteDataPanic(offset, width, data)
            /\ last_write' = Written(offset, width, data, "panicked")
            /\ UNCHANGED host_buffer
       ELSE \E outcome \in RawPartsOutcomes(offset, width) :
            IF outcome = "aborted" THEN
                /\ panicked' = "unsafe precondition(s) violated: slice::from_raw_parts_mut"
                /\ last_write' = Written(offset, width, data, "panicked")
                /\ UNCHANGED host_buffer
            ELSE
                /\ host_buffer' = [host_buffer EXCEPT !.bytes =
                        CopyFromSlice(host_buffer.bytes, offset, SliceBytes(data, width))]
                /\ last_write' = Written(offset, width, data, "returned")
                /\ UNCHANGED panicked
    /\ UNCHANGED << recorderVars, resourceVars, arenaVars, labelVars, materialVars >>

\* sequences of at most n elements of S
SeqUpTo(S, n) == UNION {[1..m -> S] : m \in 0..n}

\* a buffer of any size up to MaxSize, persistently mapped or not, with any content
HostBuffers ==
    UNION {[size : {n}, persistent_ptr : BOOLEAN, bytes : [1..n -> FillBytes]] : n \in 1..MaxSize}

WriteSpecInit ==
    /\ cb = [i \in CBs |-> NoBuffer]
    /\ rp = [i \in CBs |-> None]
    /\ calls = [i \in CBs |-> << >>]
    /\ new_ret = NotCalled
    /\ submit_ret = [i \in CBs |-> NotCalled]
    /\ current_frame = 0
    /\ panicked = "none"
    /\ ops = 0
    /\ ResourcesInit /\ ArenaInit /\ LabelsInit /\ MaterialInit
    /\ host_buffer \in HostBuffers
    /\ last_write = NoWrite

WriteNext ==
    \E offset \in 0..MaxSize, width \in ElemSizes :
        \E data \in SeqUpTo(ElemVals(width), MaxElems) : WriteData(offset, width, data)

WriteSpec == WriteSpecInit /\ [][WriteNext]_vars

\* ================================================================ properties
Count(i, op) == Cardinality({k \in DOMAIN calls[i] : calls[i][k].op = op})
Has(i, op) == Count(i, op) > 0
\* number of calls `op` made on buffer i before its k-th call
CountBefore(i, op, k) == Cardinality({j \in 1..(k - 1) : calls[i][j].op = op})
\* the k-th call on buffer i was made while a native render pass was open on it
InsideRendering(i, k) ==
    CountBefore(i, "BeginRendering", k) > CountBefore(i, "EndRendering", k)
Destroyed(i) == cb[i].phase = "destroyed"
IsRendering(c) == c.op \in {"BeginRendering", "EndRendering"}
RenderingCalls(i) == SelectSeq(calls[i], IsRendering)
DrawOps == {"Draw", "DrawIndexed"}
BindOps == {"BindPipeline", "BindDescriptorSets", "BindIndexBuffer",
            "BindVertexBuffers", "PushConstants"}

\* C1: a CommandBuffer destroyed without submit ever having been called on it
\* panicked in its drop with the drop's message, whatever it had recorded; one
\* destroyed after submit was called did not panic in its drop.
C1_DropPanicsIffNeverSubmitted ==
    \A i \in CBs :
        Destroyed(i) =>
            /\ cb[i].drop_panicked <=> ~cb[i].submit_called
            /\ cb[i].drop_panicked => panicked = DropMessage

\* C1 witness: a buffer that had recorded commands was dropped unsubmitted and panicked
C1_Witness ==
    \E i \in CBs :
        /\ Destroyed(i) /\ ~cb[i].submit_called
        /\ cb[i].drop_panicked /\ Recorded(i) # << >>

\* C2 (as claimed; refuted): after submit on a buffer into which at least one
\* command was recorded, and with no driver failure stopping the program, the
\* calls on the buffer end with exactly one EndCommandBuffer followed by exactly
\* one QueueSubmit that carries this buffer alone on the queue chosen at creation.
C2_SubmitOfRecordedBufferSubmitsOnce ==
    \A i \in CBs :
        (cb[i].submit_called /\ Recorded(i) # << >> /\ Running) =>
            /\ Count(i, "EndCommandBuffer") = 1
            /\ Count(i, "QueueSubmit") = 1
            /\ LET n == Len(calls[i])
               IN /\ calls[i][n - 1].op = "EndCommandBuffer"
                  /\ calls[i][n].op = "QueueSubmit"
                  /\ calls[i][n].command_buffers = << i >>
                  /\ calls[i][n].queue = cb[i].target_queue

\* C3: after submit on a buffer on which no recording call was made, no
\* EndCommandBuffer and no QueueSubmit was issued for it, submit returned Ok,
\* the buffer is destroyed and its drop did not panic.
C3_SubmitOfEmptyBufferIsNoOp ==
    \A i \in CBs :
        (cb[i].submit_called /\ Recorded(i) = << >>) =>
            /\ ~Has(i, "EndCommandBuffer")
            /\ ~Has(i, "QueueSubmit")
            /\ submit_ret[i].ret = Ok
            /\ Destroyed(i)
            /\ ~cb[i].drop_panicked

\* C3 witness: submit was called on a buffer with nothing recorded
C3_Witness == \E i \in CBs : cb[i].submit_called /\ Recorded(i) = << >>

\* C4 (as claimed; refuted): after a buffer that recorded exactly one render pass
\* with one color attachment cleared on load and no draw was submitted, submit
\* returned Ok and exactly one QueueSubmit was issued for the buffer.
C4_ClearOnlyPassIsSubmitted ==
    \A i \in CBs :
        (/\ cb[i].submit_called
         /\ Len(Recorded(i)) = 2
         /\ Recorded(i)[1].op = "BeginRendering"
         /\ Len(Recorded(i)[1].color_attachments) = 1
         /\ Recorded(i)[1].color_attachments[1].load_op = "CLEAR"
         /\ Recorded(i)[2].op = "EndRendering") =>
            /\ submit_ret[i].ret = Ok
            /\ Count(i, "QueueSubmit") = 1

\* C5: on every buffer BeginRendering and EndRendering alternate, starting with a
\* BeginRendering; a render pass is open natively exactly while a
\* RenderPassCommand exists for the buffer (so each begin is ended once, by the
\* RenderPassCommand's destruction); and once submit was called every begin has
\* its end, recorded before the EndCommandBuffer.
C5_RenderPassesPairedAndClosedBeforeSubmit ==
    \A i \in CBs :
        LET r == RenderingCalls(i)
        IN /\ \A k \in DOMAIN r :
                r[k].op = IF k % 2 = 1 THEN "BeginRendering" ELSE "EndRendering"
           /\ IsSome(rp[i]) <=> (Len(r) % 2 = 1)
           /\ cb[i].submit_called => Len(r) % 2 = 0
           /\ \A k \in DOMAIN calls[i] :
                calls[i][k].op \in {"EndCommandBuffer", "QueueSubmit"} =>
                    /\ ~InsideRendering(i, k)
                    /\ \A j \in DOMAIN calls[i] : IsRendering(calls[i][j]) => j < k

\* C5 witness: a buffer with a render pass in it was handed to the queue
C5_Witness ==
    \E i \in CBs : cb[i].submit_called /\ Has(i, "BeginRendering") /\ Has(i, "QueueSubmit")

\* C6: every Draw / DrawIndexed on a buffer was recorded after a BeginRendering
\* whose EndRendering had not been recorded yet.
C6_DrawsInsideRenderPass ==
    \A i \in CBs : \A k \in DOMAIN calls[i] :
        calls[i][k].op \in DrawOps => InsideRendering(i, k)

\* C6 witness: a buffer holds a draw and an indexed draw
C6_Witness == \E i \in CBs : Has(i, "Draw") /\ Has(i, "DrawIndexed")

\* C7 (as claimed; refuted): every pipeline bind, descriptor-set bind, vertex /
\* index buffer bind and push-constant write on a buffer was recorded while a
\* render pass was open on it.
C7_BindsInsideRenderPass ==
    \A i \in CBs : \A k \in DOMAIN calls[i] :
        calls[i][k].op \in BindOps => InsideRendering(i, k)

\* C8: every PipelineBarrier on a buffer was recorded while no render pass was
\* open on it.
C8_BarriersOutsideRenderPass ==
    \A i \in CBs : \A k \in DOMAIN calls[i] :
        calls[i][k].op = "PipelineBarrier" => ~InsideRendering(i, k)

\* C8 witness: a barrier was recorded on a buffer after a render pass on it
C8_Witness ==
    \E i \in CBs : \E k \in DOMAIN calls[i] :
        /\ calls[i][k].op = "PipelineBarrier"
        /\ CountBefore(i, "EndRendering", k) > 0

\* C9 (as claimed; refuted): no QueueSubmit declares more wait semaphores than
\* wait stage masks were supplied with it.
C9_WaitSemaphoresPaired ==
    \A i \in CBs : \A k \in DOMAIN calls[i] :
        calls[i][k].op = "QueueSubmit" =>
            calls[i][k].wait_semaphore_count <= calls[i][k].wait_dst_stage_masks

\* C10 (as claimed; refuted): whenever a driver call failed inside new or submit,
\* the call returned exactly the driver's error and the program was not stopped.
C10_DriverFailuresReturned ==
    /\ new_ret.failed_call # "none" => new_ret.ret = Err(new_ret.code)
    /\ \A i \in CBs :
        submit_ret[i].failed_call # "none" =>
            /\ submit_ret[i].ret = Err(submit_ret[i].code)
            /\ Running

\* C20 (as claimed; refuted): a buffer into which something was recorded is marked
\* submitted only once its end-recording call and its queue submission have been
\* made, and a submit in which one of those driver calls failed leaves the buffer
\* not marked submitted.
C20_SubmittedOnlyAfterQueueSubmit ==
    \A i \in CBs :
        /\ (cb[i].has_been_submitted /\ cb[i].has_recorded_anything) =>
                /\ Has(i, "EndCommandBuffer")
                /\ Has(i, "QueueSubmit")
        /\ submit_ret[i].failed_call # "none" => ~cb[i].has_been_submitted

\* the pool and the queue of each queue type, as the device creates them
PoolOfQueueType ==
    [q \in QueueType |-> IF q = "Graphics" THEN "graphics_command_pool"
                         ELSE IF q = "AsyncCompute" THEN "compute_command_pool"
                         ELSE "transfer_command_pool"]
QueueOfQueueType ==
    [q \in QueueType |-> IF q = "Graphics" THEN "graphics_queue"
                         ELSE IF q = "AsyncCompute" THEN "async_compute_queue"
                         ELSE "transfer_queue"]

\* C18: every step in which CommandBuffer::new(gpu, Q) produces a buffer takes its
\* native buffer from the Q pool of the frame slot current at the call, binds it to
\* the Q queue, has begun recording and nothing else on it, and returns Ok with a
\* buffer that has nothing recorded, is not submitted and is not in a render pass.
C18_NewUsesPoolAndQueueOfQ ==
    [][\A i \in CBs :
        (cb[i].phase = "none" /\ cb'[i].phase = "live") =>
            /\ cb'[i].requested \in QueueType
            /\ cb'[i].command_pool =
                    [frame |-> current_frame, pool |-> PoolOfQueueType[cb'[i].requested]]
            /\ cb'[i].target_queue = QueueOfQueueType[cb'[i].requested]
            /\ calls'[i] = << [op |-> "BeginCommandBuffer", result |-> "SUCCESS"] >>
            /\ ~cb'[i].has_recorded_anything
            /\ ~cb'[i].has_been_submitted
            /\ rp'[i] = None
            /\ new_ret'.ret = Ok
      ]_vars

\* C18 witness: live buffers of two different queue types, one of them created in
\* a frame slot other than the first
C18_Witness ==
    \E i, j \in CBs :
        /\ Live(i) /\ Live(j)
        /\ cb[i].requested = "Transfer" /\ cb[i].command_pool.frame = 1
        /\ cb[j].requested = "AsyncCompute"

\* C19 (as claimed; refuted): two buffers created by different threads in the same
\* frame slot for the same queue type never come from the same command pool.
C19_PoolPerThreadAndFrame ==
    \A i, j \in CBs :
        (/\ cb[i].phase # "none" /\ cb[j].phase # "none"
         /\ ThreadOf(i) # ThreadOf(j)
         /\ cb[i].requested = cb[j].requested
         /\ cb[i].command_pool.frame = cb[j].command_pool.frame) =>
            cb[i].command_pool # cb[j].command_pool

\* the value of an element from its bytes in memory
FromBytes(b) ==
    LET RECURSIVE Sum(_)
        Sum(k) == IF k > Len(b) THEN 0 ELSE b[k] * (256 ^ (k - 1)) + Sum(k + 1)
    IN Sum(1)
\* n elements of `width` bytes read through the persistent pointer at `offset`
ReadData(bytes, offset, n, width) ==
    [e \in 1..n |-> FromBytes([k \in 1..width |-> bytes[offset + (e - 1) * width + k]])]

\* C17: after a write_data(offset, data) that returned, with offset + byte length of
\* data within the buffer's size, reading the elements back at offset yields data,
\* and every byte of the buffer outside the written range is as it was before.
C17_WriteDataRoundTrip ==
    LET w == last_write
        len == Len(w.data) * w.width
    IN (w.outcome = "returned" /\ w.offset + len <= host_buffer.size) =>
            /\ ReadData(host_buffer.bytes, w.offset, Len(w.data), w.width) = w.data
            /\ \A k \in 1..host_buffer.size :
                (k <= w.offset \/ k > w.offset + len) => host_buffer.bytes[k] = w.before[k]

\* C17 witness: a two-byte element was written at offset 1 of a three-byte buffer,
\* changing the bytes it covers
C17_Witness ==
    /\ last_write.outcome = "returned"
    /\ last_write.width = 2 /\ last_write.offset = 1 /\ Len(last_write.data) = 1
    /\ host_buffer.size = 3
    /\ host_buffer.bytes[2] # last_write.before[2]

\* positions of the calls `op` among the calls made for resource r
CallsFor(r, ops_) == {k \in DOMAIN driver.resources[r] : driver.resources[r][k].op \in ops_}
DestroyOps == {"destroy_buffer", "destroy_image"}
AllocatorBacked(r) == resources[r].phase # "none" /\ IsSome(resources[r].allocation)
ResourceDestroyed(r) == resources[r].phase = "destroyed"

\* C11: in every destruction of a GpuBuffer or of an allocator-backed GpuImage the
\* allocation is handed back to the allocator before the native object is destroyed:
\* both calls are made, and the deallocate call comes first.
C11_DeallocateBeforeDestroy ==
    \A r \in Resources :
        (AllocatorBacked(r) /\ ResourceDestroyed(r)) =>
            /\ \E j \in CallsFor(r, {"deallocate"}) : \E k \in CallsFor(r, DestroyOps) :
                /\ j < k
                /\ driver.resources[r][j].allocation = Unwrap(resources[r].allocation)
                /\ driver.resources[r][k].inner = resources[r].inner
                /\ driver.resources[r][k].op =
                        IF resources[r].kind = "GpuBuffer" THEN "destroy_buffer" ELSE "destroy_image"
            /\ \A k \in CallsFor(r, DestroyOps) : \E j \in CallsFor(r, {"deallocate"}) : j < k

\* C11 witness: a GpuBuffer and an allocator-backed GpuImage have been destroyed
C11_Witness ==
    \E r, q \in Resources :
        /\ AllocatorBacked(r) /\ ResourceDestroyed(r) /\ resources[r].kind = "GpuBuffer"
        /\ AllocatorBacked(q) /\ ResourceDestroyed(q) /\ resources[q].kind = "GpuImage"

\* the descriptor sets taken from page p of allocator d and not given back to it
SetsOut(d, p) ==
    {s \in Sets :
        /\ descriptor_sets[s].phase # "none"
        /\ descriptor_sets[s].allocator = d
        /\ descriptor_sets[s].allocation.owner_pool = p
        /\ ~\E k \in DOMAIN driver.descriptor_sets[s] :
                /\ driver.descriptor_sets[s][k].op = "ds_deallocate"
                /\ driver.descriptor_sets[s][k].result = "SUCCESS"}

\* C12: every memory allocation and every descriptor-set allocation is deallocated
\* once if its owner has been destroyed and not at all while the owner lives, by a
\* call on the allocator instance that produced it and with that very allocation;
\* a freed descriptor set is counted back to the pool page it came from.
C12_DeallocatedOnceBySameAllocator ==
    /\ \A r \in Resources :
        AllocatorBacked(r) =>
            LET made == driver.resources[r]
                produced == CHOOSE k \in DOMAIN made : made[k].op = "allocate"
            IN /\ Cardinality(CallsFor(r, {"allocate"})) = 1
               /\ Cardinality(CallsFor(r, {"deallocate"})) = IF ResourceDestroyed(r) THEN 1 ELSE 0
               /\ \A k \in CallsFor(r, {"deallocate"}) :
                    /\ made[k].allocator = made[produced].allocator
                    /\ made[k].allocation = made[produced].allocation
    /\ \A r \in Resources :
        ~AllocatorBacked(r) => CallsFor(r, {"deallocate"}) = {}
    /\ \A s \in Sets :
        descriptor_sets[s].phase # "none" =>
            LET made == driver.descriptor_sets[s]
                produced == {k \in DOMAIN made : made[k].op = "ds_allocate" /\ made[k].result = "SUCCESS"}
                freed == {k \in DOMAIN made : made[k].op = "ds_deallocate"}
            IN /\ Cardinality(produced) = 1
               /\ Cardinality(freed) = IF descriptor_sets[s].phase = "destroyed" THEN 1 ELSE 0
               /\ \A k \in freed : \A j \in produced :
                    /\ made[k].allocator = made[j].allocator
                    /\ made[k].allocation = made[j].allocation
    /\ \A d \in Allocators : \A p \in DOMAIN ds_allocators[d].pools :
        ds_allocators[d].pools[p].used = Cardinality(SetsOut(d, p))

\* C12 witness: an allocator-backed resource and a descriptor set have both been
\* destroyed, the set's deallocation having succeeded
C12_Witness ==
    /\ \E r \in Resources : AllocatorBacked(r) /\ ResourceDestroyed(r)
    /\ \E s \in Sets :
        /\ descriptor_sets[s].phase = "destroyed"
        /\ \E k \in DOMAIN driver.descriptor_sets[s] :
                /\ driver.descriptor_sets[s][k].op = "ds_deallocate"
                /\ driver.descriptor_sets[s][k].result = "SUCCESS"

\* C15: once every allocation made from an allocator has been deallocated again,
\* the free capacity of each of its domains is what it was before the first one.
C15_AllocatorRoundTrip ==
    \A a \in Allocators :
        (\A r \in Resources :
            (AllocatorBacked(r) /\ resources[r].allocator = Some(a)) => ResourceDestroyed(r)) =>
            \A d \in MemoryDomain : FreeCapacity(a, d) = DomainCapacity

\* C15 witness: two allocations of one domain of an allocator have been made and
\* deallocated, none is left, and the free list is no longer one block
C15_Witness ==
    \E a \in Allocators : \E r, q \in Resources :
        /\ r # q
        /\ AllocatorBacked(r) /\ AllocatorBacked(q)
        /\ resources[r].allocator = Some(a) /\ resources[q].allocator = Some(a)
        /\ Unwrap(resources[r].allocation).domain = Unwrap(resources[q].allocation).domain
        /\ \A x \in Resources :
            (AllocatorBacked(x) /\ resources[x].allocator = Some(a)) => ResourceDestroyed(x)
        /\ Len(allocators[a][Unwrap(resources[r].allocation).domain]) > 1

\* the allocate calls made on descriptor-set allocators, as (slot, position) pairs
DsAllocateCalls ==
    {c \in Sets \X (1..MaxResOps) :
        /\ c[2] \in DOMAIN driver.descriptor_sets[c[1]]
        /\ driver.descriptor_sets[c[1]][c[2]].op = "ds_allocate"}
DsCall(c) == driver.descriptor_sets[c[1]][c[2]]
\* the sets created before slot s from the same allocator
EarlierSets(s, d) ==
    {j \in 1..(s - 1) : descriptor_sets[j].phase # "none" /\ descriptor_sets[j].allocator = d}

\* C16 (as claimed; refuted): every allocate call that found the pool page
\* exhausted created a new page, allocated from it, and succeeded.
C16_ExhaustedPoolStillAllocates ==
    \A c \in DsAllocateCalls :
        DsCall(c).exhausted =>
            /\ DsCall(c).created_pool
            /\ DsCall(c).result = "SUCCESS"

\* C16 (amended): an allocate call that finds the pool page exhausted and gets the
\* new page created takes the set from that page, which no earlier set came from,
\* and succeeds; one for which the page cannot be created returns that error with
\* no set allocated; a call that finds room creates no page; no page ever holds
\* more sets than it is sized for.
C16_ExhaustedPoolGrowsOrFails ==
    /\ \A c \in DsAllocateCalls :
        LET call == DsCall(c) IN
        /\ (call.exhausted /\ call.result = "SUCCESS") =>
                /\ call.created_pool
                /\ descriptor_sets[c[1]].allocation = call.allocation
                /\ call.allocation.owner_pool > 1
                /\ \A j \in EarlierSets(c[1], call.allocator) :
                        descriptor_sets[j].allocation.owner_pool < call.allocation.owner_pool
        /\ (call.exhausted /\ call.result # "SUCCESS") =>
                /\ ~call.created_pool
                /\ call.result \in VkErrors
                /\ call.allocation = NoDescriptorSetAllocation
        /\ ~call.exhausted => (~call.created_pool /\ call.result = "SUCCESS")
    /\ \A d \in Allocators : \A p \in DOMAIN ds_allocators[d].pools :
        ds_allocators[d].pools[p].used <= SetsPerPool

\* C16 witness: a set was allocated from a second page after SetsPerPool sets had
\* been taken from the first page of the same allocator
C16_Witness ==
    \E c \in DsAllocateCalls :
        /\ DsCall(c).exhausted /\ DsCall(c).result = "SUCCESS"
        /\ DsCall(c).allocation.owner_pool = 2
        /\ Cardinality(EarlierSets(c[1], DsCall(c).allocator)) >= SetsPerPool

\* the live handles holding the same (generation, index) pair as handle h
LiveClones(h) ==
    {c \in Handles :
        /\ handles[c].phase = "alive"
        /\ handles[c].index = handles[h].index
        /\ handles[c].generation = handles[h].generation}

\* C13: every live handle resolves, to the object it was made for, however clones
\* of it were made and dropped; once no clone of a handle is alive its slot no
\* longer holds the object and the old (generation, index) pair does not resolve.
C13_ResolvesWhileAClonesLives ==
    \A h \in Handles :
        /\ handles[h].phase = "alive" =>
                /\ Resolve(handles[h].index, handles[h].generation) = handles[h].object
                /\ slots[handles[h].index].strong = Cardinality(LiveClones(h))
        /\ (handles[h].phase = "dropped" /\ LiveClones(h) # {}) =>
                Resolve(handles[h].index, handles[h].generation) = handles[h].object
        /\ (handles[h].phase = "dropped" /\ LiveClones(h) = {}) =>
                /\ Resolve(handles[h].index, handles[h].generation) = NoObject
                /\ slots[handles[h].index].value # handles[h].object

\* C13 witness: a handle and its clone have both been dropped, and a handle of
\* another object is alive
C13_Witness ==
    \E h, c, o \in Handles :
        /\ h # c
        /\ handles[h].phase = "dropped" /\ handles[c].phase = "dropped"
        /\ handles[h].object = handles[c].object
        /\ handles[o].phase = "alive" /\ handles[o].object # handles[h].object

\* object b is the one added into slot `index` next after object a
NextInSlot(a, b, index) ==
    /\ a < b
    /\ \A x \in Handles :
        (handles[x].phase # "none" /\ handles[x].index = index) =>
            ~(a < handles[x].object /\ handles[x].object < b)

\* C14: when B is added into the slot that A held at generation g, after all handles
\* to A were dropped, B's handles carry generation g + 1, and while B is there the
\* pair of A's dropped handle does not resolve to B: it does not resolve at all.
C14_StaleHandleRejected ==
    \A a, b \in Handles :
        (/\ handles[a].phase = "dropped" /\ handles[b].phase # "none"
         /\ handles[a].index = handles[b].index
         /\ NextInSlot(handles[a].object, handles[b].object, handles[a].index)) =>
            /\ handles[b].generation = handles[a].generation + 1
            /\ handles[b].phase = "alive" =>
                    /\ slots[handles[b].index].generation = handles[a].generation + 1
                    /\ Resolve(handles[a].index, handles[a].generation) = NoObject

\* C14 witness: B lives in the slot A was in, and A's dropped handle still holds
\* the slot's index
C14_Witness ==
    \E a, b \in Handles :
        /\ handles[a].phase = "dropped" /\ handles[b].phase = "alive"
        /\ handles[a].index = handles[b].index
        /\ handles[a].object # handles[b].object
        /\ slots[handles[b].index].value = handles[b].object

\* the render area of the render pass that the native call k of buffer i was recorded in
RenderAreaAt(i, k) ==
    LET b == CHOOSE j \in 1..(k - 1) :
                /\ calls[i][j].op = "BeginRendering"
                /\ \A l \in (j + 1)..(k - 1) : calls[i][l].op # "BeginRendering"
    IN calls[i][b].render_area

\* the viewport spans the rows of the area, top-down or flipped
CoversRows(viewport, area) ==
    \/ viewport.y = area.offset.y /\ viewport.height = area.extent.height
    \/ viewport.y = area.offset.y + area.extent.height /\ viewport.height = -area.extent.height

\* C21 (as claimed; refuted): every Draw / DrawIndexed on a buffer comes right after a
\* SetViewport and a SetScissor on that buffer, and these (no explicit viewport or
\* scissor can be set) cover exactly the render area of the active render pass:
\* its offset and its extent.
C21_DrawPrecededByFullAreaViewportAndScissor ==
    \A i \in CBs : \A k \in DOMAIN calls[i] :
        calls[i][k].op \in {"Draw", "DrawIndexed"} =>
            /\ k >= 3
            /\ calls[i][k - 2].op = "SetViewport"
            /\ calls[i][k - 1].op = "SetScissor"
            /\ LET area == RenderAreaAt(i, k)
                   viewport == calls[i][k - 2].viewport
               IN /\ calls[i][k - 1].scissor = area
                  /\ viewport.x = area.offset.x
                  /\ viewport.width = area.extent.width
                  /\ CoversRows(viewport, area)

\* C22 (as claimed; refuted): the viewport derived from a render area of height H > 0
\* is flipped: its height is -H and its y origin lies H below the area's origin.
C22_DerivedViewportIsFlipped ==
    \A i \in CBs : \A k \in DOMAIN calls[i] :
        calls[i][k].op = "SetViewport" =>
            LET area == RenderAreaAt(i, k)
            IN area.extent.height > 0 =>
                    /\ calls[i][k].viewport.height = -area.extent.height
                    /\ calls[i][k].viewport.y = area.offset.y + area.extent.height

\* the recording calls that set has_recorded_anything
FlagOps == {"PipelineBarrier", "Draw", "DrawIndexed"}
HasFlagOp(i) == \E k \in DOMAIN calls[i] : calls[i][k].op \in FlagOps

\* C23: a buffer's has_recorded_anything is true exactly when a pipeline_barrier, a
\* draw or a draw_indexed was called on it; render-pass begins, binds, push
\* constants and debug labels leave it false, and submit on a buffer that recorded
\* only those returns Ok without ending or submitting the native buffer.
C23_FlagIffBarrierOrDraw ==
    \A i \in CBs :
        cb[i].phase # "none" =>
            /\ cb[i].has_recorded_anything <=> HasFlagOp(i)
            /\ (cb[i].submit_called /\ ~HasFlagOp(i)) =>
                    /\ ~Has(i, "EndCommandBuffer") /\ ~Has(i, "QueueSubmit")
                    /\ submit_ret[i].ret = Ok

\* C23 witness: submit was called on a buffer that recorded a render pass and a
\* debug label, and no barrier or draw
C23_Witness ==
    \E i \in CBs :
        /\ cb[i].submit_called /\ ~HasFlagOp(i)
        /\ Has(i, "BeginRendering") /\ Has(i, "BeginDebugUtilsLabel")

\* C24 (as claimed; refuted): once submit has been called on a CommandBuffer, no step
\* records a further native command, the end-label of a debug region included,
\* into its native command buffer.
C24_NothingRecordedAfterSubmit ==
    [][\A i \in CBs : cb[i].submit_called => SelectSeq(calls'[i], IsCmd) = Recorded(i)]_vars

\* the positions of the native calls `op` made for label l
LabelCalls(l, op) ==
    UNION {{<< i, k >> : k \in {k \in DOMAIN calls[i] :
                                    calls[i][k].op = op /\ calls[i][k].label = l}} : i \in CBs}

\* C25: for every debug region begun, with debug utilities exactly one begin-label
\* was issued and, once the region is closed by end() or by destruction, exactly
\* one end-label (none while it is open); without debug utilities neither is issued.
C25_OneBeginOneEndPerRegion ==
    \A l \in Labels :
        labels[l].phase # "none" =>
            /\ Cardinality(LabelCalls(l, "BeginDebugUtilsLabel")) = IF debug_utilities THEN 1 ELSE 0
            /\ Cardinality(LabelCalls(l, "EndDebugUtilsLabel")) =
                    IF debug_utilities /\ labels[l].phase = "destroyed" THEN 1 ELSE 0

\* C25 witness: with debug utilities, one region was closed by end() and another by
\* destruction
C25_Witness ==
    /\ debug_utilities
    /\ \E l, m \in Labels :
        /\ labels[l].phase = "destroyed" /\ labels[l].closed_by = "end"
        /\ labels[m].phase = "destroyed" /\ labels[m].closed_by = "drop"

\* resource r came from GpuImage::wrap: no memory was ever allocated for it
Wrapped(r) ==
    /\ resources[r].kind = "GpuImage"
    /\ \A k \in DOMAIN driver.resources[r] : driver.resources[r][k].op # "allocate"

\* C26: a GpuImage made by wrap holds neither an allocation nor an allocator, and
\* its destruction makes no deallocate and no destroy_image call; a GpuImage made by
\* create holds both; so the two fields are present together or absent together.
C26_WrappedImageOwnsNothing ==
    \A r \in Resources :
        resources[r].kind = "GpuImage" =>
            /\ IsSome(resources[r].allocation) <=> IsSome(resources[r].allocator)
            /\ IF Wrapped(r)
               THEN /\ resources[r].allocation = None /\ resources[r].allocator = None
                    /\ driver.resources[r] = << >>
               ELSE IsSome(resources[r].allocation) /\ IsSome(resources[r].allocator)

\* C26 witness: a wrapped image has been destroyed while a created image exists
C26_Witness ==
    \E w, c \in Resources :
        /\ Wrapped(w) /\ resources[w].phase = "destroyed"
        /\ resources[c].kind = "GpuImage" /\ ~Wrapped(c)

\* the ds_deallocate calls made for descriptor set s
DsDeallocateCalls(s) ==
    {k \in DOMAIN driver.descriptor_sets[s] : driver.descriptor_sets[s][k].op = "ds_deallocate"}

\* C30: the destruction of a GpuDescriptorSet calls deallocate exactly once, on the
\* allocator stored in the set and with the set's allocation (a live set has made no
\* such call); when that call fails nothing is returned to a caller: the program
\* stops with the destructor's panic.
C30_SetDropDeallocatesOnceOrPanics ==
    \A s \in Sets :
        /\ descriptor_sets[s].phase = "live" => DsDeallocateCalls(s) = {}
        /\ descriptor_sets[s].phase = "destroyed" =>
                /\ Cardinality(DsDeallocateCalls(s)) = 1
                /\ \A k \in DsDeallocateCalls(s) :
                    LET call == driver.descriptor_sets[s][k]
                    IN /\ call.allocator = descriptor_sets[s].allocator
                       /\ call.allocation = descriptor_sets[s].allocation
                       /\ call.result # "SUCCESS" =>
                                panicked = "Failed to deallocate descriptor set"

\* C30 witness: the deallocate call of a set's destruction failed
C30_Witness ==
    \E s \in Sets :
        /\ descriptor_sets[s].phase = "destroyed"
        /\ \E k \in DsDeallocateCalls(s) : driver.descriptor_sets[s][k].result # "SUCCESS"

\* the conditions write_data asks of its last call w
WritePreconditions(w) ==
    LET len == Len(w.data) * w.width
    IN /\ len > 0
       /\ w.offset < host_buffer.size
       /\ w.offset + len <= host_buffer.size
       /\ host_buffer.persistent_ptr

\* C29: write_data returns, and changes bytes of the buffer, only when the byte
\* length of data is positive, offset < size, offset + byte length <= size and the
\* allocation has a persistent pointer; in every other case it panics and every
\* byte of the buffer is as it was before the call.
C29_WriteDataPanicsWithoutWriting ==
    LET w == last_write
    IN w.outcome # "none" =>
            /\ (w.outcome = "returned" \/ host_buffer.bytes # w.before) => WritePreconditions(w)
            /\ ~WritePreconditions(w) =>
                    /\ w.outcome = "panicked"
                    /\ panicked # "none"
                    /\ host_buffer.bytes = w.before

\* C29 witness: a write of fitting, non-empty data panicked on a buffer without a
\* persistent pointer
C29_Witness ==
    LET w == last_write
        len == Len(w.data) * w.width
    IN /\ w.outcome = "panicked"
       /\ len > 0 /\ w.offset + len <= host_buffer.size
       /\ ~host_buffer.persistent_ptr
       /\ panicked = "Tried to write to a buffer without a persistent ptr!"

\* binding indices 0..n-1, each once and in list order
Contiguous(descriptors) == \A k \in DOMAIN descriptors : descriptors[k].binding = k - 1
\* create_instance got as far as building the descriptor list
ListBuilt(w) == w.ret.ok \/ w.ret.err \in VkErrors

\* C27: the descriptor list of Material::new has the bindings 0..n-1 in list order,
\* the uniform buffers first and then the textures; the list of
\* create_user_descriptor_set has them too, the master's texture inputs first and the
\* parameter buffer, when there is one, at the last index.
C27_BindingsContiguous ==
    /\ LET m == material_ret
       IN m.ret # NotCalledYet =>
            /\ Len(m.descriptors) = m.n_buffers + m.n_textures
            /\ Contiguous(m.descriptors)
            /\ \A k \in DOMAIN m.descriptors :
                m.descriptors[k].element_type =
                    IF k <= m.n_buffers THEN "UniformBuffer" ELSE "CombinedImageSampler"
    /\ LET w == instance_ret
           n == w.master.n_textures
       IN ListBuilt(w) =>
            /\ Len(w.descriptors) = n + (IF IsSome(w.created_buffer) THEN 1 ELSE 0)
            /\ Contiguous(w.descriptors)
            /\ \A k \in 1..n : w.descriptors[k].element_type = "CombinedImageSampler"
            /\ IsSome(w.created_buffer) =>
                    w.descriptors[n + 1] = UniformBufferDescriptor(Len(w.descriptors) - 1)

\* C27 witness: a material of uniform buffers and textures, and an instance of
\* texture inputs and a parameter buffer, have been created
C27_Witness ==
    /\ material_ret.ret.ok /\ material_ret.n_buffers > 0 /\ material_ret.n_textures > 0
    /\ instance_ret.ret.ok /\ instance_ret.master.n_textures > 0
    /\ IsSome(instance_ret.parameter_buffer)

\* the deallocate calls made for resource r
DeallocateCalls(r) == CallsFor(r, {"deallocate"})

\* C28: create_instance creates a parameter buffer exactly when the master has a
\* material parameter (and memory for it); when the creation of the descriptor set
\* fails it returns that error, no instance holds a buffer or a set, and the buffer
\* it had created is destroyed, its allocation deallocated exactly once through the
\* allocator it came from.
C28_InstanceErrorReleasesBuffer ==
    LET w == instance_ret
    IN w.ret # NotCalledYet =>
        /\ IsSome(w.created_buffer) => w.master.n_parameters > 0
        /\ ListBuilt(w) => (IsSome(w.created_buffer) <=> w.master.n_parameters > 0)
        /\ w.ret.ok => w.parameter_buffer = w.created_buffer /\ IsSome(w.user_descriptor_set)
        /\ w.ret.err \in VkErrors =>
            /\ w.parameter_buffer = None /\ w.user_descriptor_set = None
            /\ IsSome(w.created_buffer) =>
                LET r == Unwrap(w.created_buffer)
                IN /\ resources[r].phase = "destroyed"
                   /\ Cardinality(DeallocateCalls(r)) = 1
                   /\ \A k \in DeallocateCalls(r) :
                        /\ driver.resources[r][k].allocation = Unwrap(resources[r].allocation)
                        /\ driver.resources[r][k].allocator = Unwrap(resources[r].allocator)

\* C28 witness: the descriptor-set creation of create_instance failed after the
\* parameter buffer had been created
C28_Witness ==
    /\ instance_ret.ret.err \in VkErrors
    /\ IsSome(instance_ret.created_buffer)

====
